---------------------------- MODULE Spec2Model ----------------------------
(***************************************************************************)
(* IGFollow: snapshot ingestion, normalization and diffing.                *)
(*                                                                         *)
(* A username is a sequence of one-character strings, so that strip(),     *)
(* lstrip("@") and lower() are computed character by character as Python   *)
(* computes them.  The store is the committed content of the snapshot      *)
(* table; every request runs in a database session of its own whose        *)
(* flushed rows become visible to other requests only at commit.           *)
(***************************************************************************)
EXTENDS Integers, Sequences, FiniteSets, TLC

VARIABLES
    db,         \* committed Snapshot rows (with their SnapshotEntry usernames)
    accounts,   \* committed TrackedAccount rows
    next_id,    \* next Snapshot primary key
    now,        \* the value datetime.utcnow() returns
    connected,  \* the user has a stored Instagram session
    available,  \* the instagrapi client library can be imported
    req,        \* per request: position in its handler and its session
    probe       \* a call of a pure function: its input and results

vars == <<db, accounts, next_id, now, connected, available, req, probe>>

-----------------------------------------------------------------------------
(* Bounds *)

MaxSnapshots == 2       \* Snapshot rows ever inserted
MaxClock == 2           \* clock readings 0..MaxClock
MaxStrLen == 3          \* length of the strings given to the normalizers
MaxListLen == 2         \* length of the lists given to compute_diff
MaxDataRows == 2        \* data rows of the delimited files given to the parser
MaxFreeExport == 1      \* values 0..MaxFreeExport of the MAX_FREE_EXPORT setting
MaxStored == 1          \* Snapshot rows inserted, and ticks, where requests run one by one
MaxExported == 2        \* Snapshot rows inserted where exports are downloaded
MaxSynced == 3          \* Snapshot rows inserted where the account pages are requested
MaxAccounts == 2        \* TrackedAccount rows added
MaxSessions == 2        \* InstagramSession contents ever committed

-----------------------------------------------------------------------------
(* Strings *)

\* A string is a sequence of characters, each of them a printable ASCII
\* character (code points 32 to 126) other than the grave accent, a tab, a
\* newline, a form feed or a carriage return.  Chars holds them in code
\* point order.
Chars ==
    <<
      "\t", "\n", "\f", "\r", " ", "!", "\"", "#", "$", "%", "&", "'", "(",
      ")", "*", "+", ",", "-", ".", "/", "0", "1", "2", "3", "4", "5", "6",
      "7", "8", "9", ":", ";", "<", "=", ">", "?", "@", "A", "B", "C", "D",
      "E", "F", "G", "H", "I", "J", "K", "L", "M", "N", "O", "P", "Q", "R",
      "S", "T", "U", "V", "W", "X", "Y", "Z", "[", "\\", "]", "^", "_",
      "a", "b", "c", "d", "e", "f", "g", "h", "i", "j", "k", "l", "m",
      "n", "o", "p", "q", "r", "s", "t", "u", "v", "w", "x", "y", "z", "{",
      "|", "}", "~"
    >>

\* The code point order of the characters.
OrdOf == [c \in {Chars[i] : i \in 1..Len(Chars)} |-> CHOOSE i \in 1..Len(Chars) : Chars[i] = c]

Ord(c) == OrdOf[c]

\* str.isspace() on one character: what str.strip() removes.
IsSpace(c) == c \in {" ", "\t", "\n", "\f", "\r"}

UpperLetters ==
    <<
      "A", "B", "C", "D", "E", "F", "G", "H", "I", "J", "K", "L", "M", "N",
      "O", "P", "Q", "R", "S", "T", "U", "V", "W", "X", "Y", "Z"
    >>

LowerLetters ==
    <<
      "a", "b", "c", "d", "e", "f", "g", "h", "i", "j", "k", "l", "m", "n",
      "o", "p", "q", "r", "s", "t", "u", "v", "w", "x", "y", "z"
    >>

LowerOf == [c \in {UpperLetters[i] : i \in 1..Len(UpperLetters)} |->
              LowerLetters[CHOOSE i \in 1..Len(UpperLetters) : UpperLetters[i] = c]]

\* str.lower() on one character.
LowerChar(c) == IF c \in DOMAIN LowerOf THEN LowerOf[c] ELSE c

\* str.lower()
Lower(s) == [i \in 1..Len(s) |-> LowerChar(s[i])]

RECURSIVE LStripSpace(_)
LStripSpace(s) ==
    IF s # <<>> /\ IsSpace(Head(s)) THEN LStripSpace(Tail(s)) ELSE s

RECURSIVE RStripSpace(_)
RStripSpace(s) ==
    IF s # <<>> /\ IsSpace(s[Len(s)])
    THEN RStripSpace(SubSeq(s, 1, Len(s) - 1))
    ELSE s

\* str.strip(): leading and trailing whitespace removed.
Strip(s) == RStripSpace(LStripSpace(s))

\* Removes one leading '@', if there is one.
LStripOneAt(s) == IF s # <<>> /\ Head(s) = "@" THEN Tail(s) ELSE s

\* str.lstrip("@"): every leading '@' removed.
RECURSIVE LStripAt(_)
LStripAt(s) == IF s # <<>> /\ Head(s) = "@" THEN LStripAt(Tail(s)) ELSE s

\* Python's < on str: lexicographic by code point, a proper prefix first.
RECURSIVE StrLess(_, _)
StrLess(s, t) ==
    IF t = <<>> THEN FALSE
    ELSE IF s = <<>> THEN TRUE
    ELSE IF Head(s) # Head(t) THEN Ord(Head(s)) < Ord(Head(t))
    ELSE StrLess(Tail(s), Tail(t))

\* sorted() of a set of strings.
RECURSIVE Sorted(_)
Sorted(S) ==
    IF S = {} THEN <<>>
    ELSE LET m == CHOOSE x \in S : \A y \in S \ {x} : StrLess(x, y)
         IN  <<m>> \o Sorted(S \ {m})

Range(seq) == {seq[i] : i \in 1..Len(seq)}

SeqsUpTo(S, n) == UNION {[1..k -> S] : k \in 0..n}

\* The names kept in first-seen order, empty ones dropped.
RECURSIVE FirstSeen(_, _)
FirstSeen(names, acc) ==
    IF names = <<>> THEN acc
    ELSE LET u == Head(names)
         IN  IF u = <<>> \/ u \in Range(acc)
             THEN FirstSeen(Tail(names), acc)
             ELSE FirstSeen(Tail(names), Append(acc, u))

-----------------------------------------------------------------------------
(* forms.py, views.py, diff.py: the pure functions *)

\* A plausible slip: one leading '@' removed instead of all of them.
normalize_username_one_at(username) == Lower(LStripOneAt(Strip(username)))

\* forms.normalize_username
normalize_username(username) == Lower(LStripAt(Strip(username)))

\* views._normalize_username
views_normalize_username(value) == Lower(LStripAt(Strip(value)))

\* diff.compute_diff: the set comprehension over one argument.
DiffSet(items) ==
    {Lower(Strip(items[i])) : i \in {j \in 1..Len(items) : items[j] # <<>>}}

\* diff.compute_diff
compute_diff(old, new) ==
    [added   |-> Sorted(DiffSet(new) \ DiffSet(old)),
     removed |-> Sorted(DiffSet(old) \ DiffSet(new))]


-----------------------------------------------------------------------------
(* Inputs *)

S_b == <<"b">>
S_A == <<"A">>
S_at_a == <<"@", "a">>
S_at3_a == <<"@", " ", "@", " ", "@", " ", "a">>

\* The username column of the rows a parser strategy extracts from an
\* uploaded file, before normalization.
UploadInputs ==
    { <<>>,
      <<S_b, S_A, S_at_a>>,
      <<S_at3_a>> }

\* The usernames InstagramService.fetch_relationships returns.
SyncInputs ==
    { <<S_b, S_A, S_at_a>> }

Accounts == {"acct1"}

\* The requests that run at the same time, and those of them that may run
\* an automatic sync: two uploads, or a sync and an upload, overlap.
Requests == {"r1", "r2"}
SyncRequests == {"r1"}

SnapshotTypes == {"followers", "following"}

\* The username the account was added under, and the one the Instagram
\* profile of that account carries.
TypedUsername(a) == "Demo"
ProfileUsername(a) == "demo"
ProfileUserId(a) == "id-demo"

\* current_app.config["INSTAGRAM_CACHE_MINUTES"], in clock units.
CacheMinutes == 1

-----------------------------------------------------------------------------
(* models.py *)

\* The id that stands for "no snapshot" (Python's None).
NoSnapshot == 0

\* A Snapshot row as _store_snapshot flushes it, before it has a
\* SnapshotEntry row.  intended, rows and prev record the ingest that
\* creates the row: the usernames it is to hold, the number of rows of the
\* input and the id of previous_snapshot (NoSnapshot when there was none).
Snapshot(id, a, t, at, intended, rows, prev) ==
    [id |-> id, account |-> a, type |-> t, created_at |-> at,
     entries |-> <<>>, intended |-> intended, rows |-> rows, prev |-> prev,
     diff |-> [added |-> <<>>, removed |-> <<>>]]

\* The row with its SnapshotEntry rows added, and the diff _store_snapshot
\* returns for it.
WithEntries(snapshot, usernames, diff) ==
    [snapshot EXCEPT !.entries = usernames, !.diff = diff]

OfKey(S, a, t) == {s \in S : s.account = a /\ s.type = t}

\* TrackedAccount.latest_snapshot: ORDER BY created_at DESC, first().  Rows
\* with equal created_at come in an order the database chooses, so every
\* row with the greatest created_at is a possible result.
latest_snapshot(S, a, t) ==
    {s \in OfKey(S, a, t) : \A o \in OfKey(S, a, t) : o.created_at <= s.created_at}

ById(S, id) == CHOOSE s \in S : s.id = id

-----------------------------------------------------------------------------
(* views.py: helpers of the ingest path *)

\* forms.parse_snapshot_file, the rows it returns for extracted usernames:
\* normalized, empty ones dropped, first occurrence kept.
ParsedRows(raw) ==
    FirstSeen([i \in 1..Len(raw) |-> normalize_username(raw[i])], <<>>)

\* views._prepare_entries: the usernames of the prepared entries.
prepare_entries(rows) ==
    FirstSeen([i \in 1..Len(rows) |-> views_normalize_username(rows[i])], <<>>)

\* A plausible slip: the `username in seen` test left out.
StoreUsernamesNoSeen(entries) ==
    SelectSeq([i \in 1..Len(entries) |-> views_normalize_username(entries[i])],
              LAMBDA u : u # <<>>)

\* views._store_snapshot: the usernames of the SnapshotEntry rows it adds.
StoreUsernames(entries) ==
    FirstSeen([i \in 1..Len(entries) |-> views_normalize_username(entries[i])], <<>>)

\* A plausible slip: the first snapshot reported as no change.
StoreDiffNoneAdded(S, prev, usernames) ==
    IF prev # NoSnapshot
    THEN compute_diff(ById(S, prev).entries, usernames)
    ELSE [added |-> <<>>, removed |-> <<>>]

\* views._store_snapshot: the diff it returns, previous_snapshot being the
\* row of S with id prev.
StoreDiff(S, prev, usernames) ==
    IF prev # NoSnapshot
    THEN compute_diff(ById(S, prev).entries, usernames)
    ELSE [added |-> usernames, removed |-> <<>>]

\* A plausible slip: the new row committed where it is to be flushed.
FlushCommits(S, rows) == S \cup rows

\* db.session.flush() (views.py line 243) on the committed rows S: the new
\* rows go to the database inside the session's open transaction, the
\* committed rows stay as they are.
Flush(S, rows) == S

\* The commit argument _ensure_instagram_snapshots passes to _store_snapshot
\* (views.py line 327).
EnsureCommitArg == FALSE

\* A plausible slip: created_at <= where the query has created_at <, so that
\* the latest snapshot is a candidate for its own predecessor.
latest_diff_not_strict(S, a, t) ==
    UNION {
        LET older == {p \in OfKey(S, a, t) : p.created_at <= l.created_at}
            previous == {p \in older : \A o \in older : o.created_at <= p.created_at}
        IN  {compute_diff(p.entries, l.entries) : p \in previous}
      : l \in latest_snapshot(S, a, t) }

\* A plausible slip: the query ordered by created_at ascending, so that the
\* oldest of the earlier snapshots is taken.
latest_diff_oldest(S, a, t) ==
    UNION {
        LET older == {p \in OfKey(S, a, t) : p.created_at < l.created_at}
            previous == {p \in older : \A o \in older : p.created_at <= o.created_at}
        IN  IF previous = {}
            THEN {[added |-> l.entries, removed |-> <<>>]}
            ELSE {compute_diff(p.entries, l.entries) : p \in previous}
      : l \in latest_snapshot(S, a, t) }

\* views._latest_diff on the snapshots S: every diff it can return, none
\* when there is no snapshot of the type (it returns None).
latest_diff(S, a, t) ==
    UNION {
        LET older == {p \in OfKey(S, a, t) : p.created_at < l.created_at}
            previous == {p \in older : \A o \in older : o.created_at <= p.created_at}
        IN  IF previous = {}
            THEN {[added |-> l.entries, removed |-> <<>>]}
            ELSE {compute_diff(p.entries, l.entries) : p \in previous}
      : l \in latest_snapshot(S, a, t) }

-----------------------------------------------------------------------------
(* The requests *)

\* A request that is not running.  kind is the ingest it runs, stype the
\* snapshot type being stored, types the types a sync has still to visit,
\* threshold the freshness_threshold of a sync, prev the id of
\* previous_snapshot, pending the rows its session has flushed and not
\* committed, created the ids of the rows it inserted.
IdleReq ==
    [pc |-> "idle", kind |-> "none", account |-> "none", stype |-> "none",
     types |-> <<>>, force |-> FALSE, threshold |-> 0, prev |-> NoSnapshot,
     pending |-> {}, created |-> {}]

\* What request r's session sees: the committed rows and its own flushed ones.
Visible(r) == db \cup req[r].pending

\* A Snapshot row is left for one more call of _store_snapshot.
RoomToStore ==
    next_id + Cardinality({r \in Requests : req[r].pc \in {"sync_fetch", "store_flush"}})
        <= MaxSnapshots

Init ==
    /\ db = {}
    /\ accounts = [a \in Accounts |->
                     [instagram_username |-> TypedUsername(a),
                      instagram_user_id |-> "none"]]
    /\ next_id = 1
    /\ now = 0
    /\ connected \in BOOLEAN
    /\ available \in BOOLEAN
    /\ req = [r \in Requests |-> IdleReq]
    /\ probe = [op |-> "none"]

\* views.upload_snapshot, lines 336-354: a file whose rows parse to nothing
\* is answered with a warning.
UploadNoRows(r) ==
    /\ req[r].pc = "idle"
    /\ \E a \in Accounts, raw \in UploadInputs :
        /\ ParsedRows(raw) = <<>>
        /\ req' = [req EXCEPT ![r] =
              [IdleReq EXCEPT !.pc = "done"]]
    /\ UNCHANGED <<db, accounts, next_id, now, connected, available, probe>>

\* views.upload_snapshot, lines 336-357, and _store_snapshot, line 239: a
\* file with rows is parsed, its entries are prepared and previous_snapshot
\* is read.  The rows are not looked at before the entries are added, so
\* the file's content is drawn in StoreFlush.
UploadStart(r) ==
    /\ req[r].pc = "idle"
    /\ RoomToStore
    /\ \E a \in Accounts, t \in SnapshotTypes :
        LET latest == latest_snapshot(db, a, t)
        IN  \E prev \in {p.id : p \in latest}
                        \cup (IF latest = {} THEN {NoSnapshot} ELSE {}) :
              req' = [req EXCEPT ![r] =
                [IdleReq EXCEPT !.pc = "store_flush", !.kind = "upload",
                                !.account = a, !.stype = t, !.prev = prev]]
    /\ UNCHANGED <<db, accounts, next_id, now, connected, available, probe>>

\* The entries _store_snapshot is called with: those prepared from an
\* uploaded file with rows, or the relationships fetched from Instagram.
EntriesOf(kind, raw) ==
    IF kind = "upload" THEN prepare_entries(ParsedRows(raw)) ELSE raw

\* views._store_snapshot, lines 241-243: the Snapshot row is added and
\* flushed with created_at = utcnow().
StoreFlush(r) ==
    /\ req[r].pc = "store_flush"
    /\ \E raw \in IF req[r].kind = "upload"
                  THEN {u \in UploadInputs : ParsedRows(u) # <<>>}
                  ELSE SyncInputs :
        LET snapshot == Snapshot(next_id, req[r].account, req[r].stype, now,
                                 StoreUsernames(EntriesOf(req[r].kind, raw)),
                                 Len(raw), req[r].prev)
        IN  /\ req' = [req EXCEPT
                         ![r].pending = @ \cup {snapshot},
                         ![r].created = @ \cup {next_id},
                         ![r].pc = "store_entries"]
            /\ db' = Flush(db, {snapshot})
    /\ next_id' = next_id + 1
    /\ UNCHANGED <<accounts, now, connected, available, probe>>

\* The row request r is adding entries to: the one it flushed last.
Storing(r) == CHOOSE s \in req[r].pending : \A o \in req[r].pending : o.id <= s.id

\* views._store_snapshot, lines 245-268: the entries are added to the
\* session and the diff is computed.
StoreEntries(r) ==
    /\ req[r].pc = "store_entries"
    /\ LET snapshot == Storing(r)
           usernames == snapshot.intended
           diff == StoreDiff(Visible(r), req[r].prev, usernames)
           commits == req[r].kind = "upload" \/ EnsureCommitArg
       IN  req' = [req EXCEPT
                     ![r].pending = (@ \ {snapshot})
                                    \cup {WithEntries(snapshot, usernames, diff)},
                     ![r].types = IF req[r].kind = "sync" THEN Tail(@) ELSE @,
                     ![r].pc = IF commits THEN "commit" ELSE "sync_loop"]
    /\ UNCHANGED <<db, accounts, next_id, now, connected, available, probe>>

\* A statement of views._store_snapshot, lines 245-268, raises (the
\* database rejects an insert, an entry has no string for its username):
\* the request ends with an error.
StoreFails(r) ==
    /\ req[r].pc = "store_entries"
    /\ req' = [req EXCEPT ![r] =
                 [IdleReq EXCEPT !.pc = "failed", !.created = req[r].created]]
    /\ UNCHANGED <<db, accounts, next_id, now, connected, available, probe>>

\* A plausible slip: the rows of a commit take the place of the persisted
\* snapshots of their account and type.
CommitRowsInPlace(S, rows) ==
    {s \in S : \A n \in rows : s.account # n.account \/ s.type # n.type} \cup rows

\* db.session.commit() on a session that holds these new rows: they are
\* inserted, and no row of the table is updated or deleted.
CommitRows(S, rows) == S \cup rows

\* The account's fields as fetch_profile's answer sets them (views.py lines
\* 299-302), once they are committed.
ProfileCommitted(accts, a) ==
    [accts EXCEPT ![a] = [instagram_username |-> ProfileUsername(a),
                          instagram_user_id |-> ProfileUserId(a)]]

\* db.session.commit(): views.py line 271 (in _store_snapshot, after which
\* an upload is done and a sync goes on with its loop) and line 330 (in
\* _ensure_instagram_snapshots, when its loop is over).
Commit(r) ==
    /\ \/ req[r].pc = "commit"
       \/ req[r].pc = "sync_loop" /\ req[r].types = <<>>
    /\ db' = CommitRows(db, req[r].pending)
    /\ accounts' = IF req[r].kind = "sync"
                   THEN ProfileCommitted(accounts, req[r].account)
                   ELSE accounts
    /\ req' = [req EXCEPT ![r] =
                 IF req[r].kind = "sync" /\ req[r].types # <<>>
                 THEN [@ EXCEPT !.pending = {}, !.pc = "sync_loop"]
                 ELSE [IdleReq EXCEPT !.pc = "done"]]
    /\ UNCHANGED <<next_id, now, connected, available, probe>>

\* views._ensure_instagram_snapshots, lines 283-296: nothing is synced when
\* the service is unavailable or the user is not connected.
SyncSkipped(r) ==
    /\ r \in SyncRequests
    /\ req[r].pc = "idle"
    /\ ~available \/ ~connected
    /\ req' = [req EXCEPT ![r] = [IdleReq EXCEPT !.pc = "done"]]
    /\ UNCHANGED <<db, accounts, next_id, now, connected, available, probe>>

\* views._ensure_instagram_snapshots, lines 283-311, called by add_account
\* (force), view_account and export_snapshot (one snapshot type): the
\* profile is fetched, the account's fields are set and flushed, and
\* freshness_threshold is taken from the clock, once for the whole loop.
SyncStart(r) ==
    /\ r \in SyncRequests
    /\ req[r].pc = "idle"
    /\ available /\ connected
    /\ \E a \in Accounts, force \in BOOLEAN,
          types \in {<<"followers", "following">>, <<"followers">>, <<"following">>} :
        req' = [req EXCEPT ![r] =
                  [IdleReq EXCEPT !.pc = "sync_loop", !.kind = "sync", !.account = a,
                                  !.force = force, !.types = types,
                                  !.threshold = now - CacheMinutes]]
    /\ UNCHANGED <<db, accounts, next_id, now, connected, available, probe>>

\* InstagramService.fetch_profile raises InstagramServiceError (views.py
\* line 298): the caller gives up the sync before it has changed anything.
ProfileFails(r) ==
    /\ r \in SyncRequests
    /\ req[r].pc = "idle"
    /\ available /\ connected
    /\ req' = [req EXCEPT ![r] = [IdleReq EXCEPT !.pc = "failed"]]
    /\ UNCHANGED <<db, accounts, next_id, now, connected, available, probe>>

\* InstagramService.fetch_relationships raises InstagramServiceError
\* (views.py line 318): the caller gives up the sync.
SyncFails(r) ==
    /\ req[r].pc = "sync_fetch"
    /\ req' = [req EXCEPT ![r] =
                 [IdleReq EXCEPT !.pc = "failed", !.created = req[r].created]]
    /\ UNCHANGED <<db, accounts, next_id, now, connected, available, probe>>

\* views._ensure_instagram_snapshots, lines 313-317: one turn of the loop
\* reads the latest snapshot of the type.  A type whose latest snapshot is
\* not older than the threshold is passed over, unless the sync is forced;
\* for another the relationships are asked for.
SyncLoop(r) ==
    /\ req[r].pc = "sync_loop"
    /\ req[r].types # <<>>
    /\ LET t == Head(req[r].types)
           latest == latest_snapshot(Visible(r), req[r].account, t)
       IN  \E fresh \in {l.created_at >= req[r].threshold : l \in latest}
                        \cup (IF latest = {} THEN {FALSE} ELSE {}) :
             IF ~req[r].force /\ fresh
             THEN req' = [req EXCEPT ![r].types = Tail(@)]
             ELSE /\ RoomToStore
                  /\ req' = [req EXCEPT ![r].stype = t, ![r].pc = "sync_fetch"]
    /\ UNCHANGED <<db, accounts, next_id, now, connected, available, probe>>

\* InstagramService._client_for, lines 192-204, inside fetch_relationships:
\* the cached client has been dropped by a connect_user since fetch_profile,
\* Instagram wants a new login, and after it db.session.commit() commits
\* the session of the request: the account's fields and the snapshots of
\* the types the loop has been through.
SyncRelogin(r) ==
    /\ req[r].pc = "sync_fetch"
    /\ req[r].pending # {} \/ accounts # ProfileCommitted(accounts, req[r].account)
    /\ db' = CommitRows(db, req[r].pending)
    /\ accounts' = ProfileCommitted(accounts, req[r].account)
    /\ req' = [req EXCEPT ![r].pending = {}]
    /\ UNCHANGED <<next_id, now, connected, available, probe>>

\* views._ensure_instagram_snapshots, lines 318-327, and _store_snapshot,
\* line 239: fetch_relationships has returned and _store_snapshot reads
\* previous_snapshot.
SyncFetch(r) ==
    /\ req[r].pc = "sync_fetch"
    /\ LET latest == latest_snapshot(Visible(r), req[r].account, req[r].stype)
       IN  \E prev \in {p.id : p \in latest}
                       \cup (IF latest = {} THEN {NoSnapshot} ELSE {}) :
             req' = [req EXCEPT ![r].prev = prev, ![r].pc = "store_flush"]
    /\ UNCHANGED <<db, accounts, next_id, now, connected, available, probe>>

\* The end of the request: the response is sent and the session is
\* removed, which rolls back whatever it had not committed.
Finish(r) ==
    /\ req[r].pc \in {"done", "failed"}
    /\ req' = [req EXCEPT ![r] = IdleReq]
    /\ UNCHANGED <<db, accounts, next_id, now, connected, available, probe>>

\* Time passes: utcnow() returns a later value.  Between two ticks every
\* reading of the clock is the same.
Tick ==
    /\ now < MaxClock
    /\ now' = now + 1
    /\ UNCHANGED <<db, accounts, next_id, connected, available, req, probe>>

Next ==
    \/ \E r \in Requests :
         \/ UploadNoRows(r)
         \/ UploadStart(r)
         \/ StoreFlush(r)
         \/ StoreEntries(r)
         \/ StoreFails(r)
         \/ Commit(r)
         \/ SyncSkipped(r)
         \/ SyncStart(r)
         \/ ProfileFails(r)
         \/ SyncFails(r)
         \/ SyncLoop(r)
         \/ SyncRelogin(r)
         \/ SyncFetch(r)
         \/ Finish(r)
    \/ Tick

Spec == Init /\ [][Next]_vars

-----------------------------------------------------------------------------
(* forms.py: parse_snapshot_file.  A file's text is a sequence of
   characters without quote characters outside JSON, carriage returns,
   digits or backslashes. *)

\* Python's None where a string is expected.
None == <<"None">>

\* Python's truth value of a string or None.
Truthy(v) == v # None /\ v # <<>>

\* a or b or ...: the first operand that is true, else the last one.
RECURSIVE OrChain(_)
OrChain(vals) ==
    IF Len(vals) = 1 \/ Truthy(Head(vals)) THEN Head(vals) ELSE OrChain(Tail(vals))

Contains(s, c) == \E i \in 1..Len(s) : s[i] = c

StartsWith(s, prefix) ==
    Len(s) >= Len(prefix) /\ SubSeq(s, 1, Len(prefix)) = prefix

EndsWith(s, suffix) ==
    Len(s) >= Len(suffix) /\ SubSeq(s, Len(s) - Len(suffix) + 1, Len(s)) = suffix

\* str.split(c): the pieces of s between the occurrences of c.
RECURSIVE SplitOn(_, _)
SplitOn(s, c) ==
    IF Contains(s, c)
    THEN LET i == CHOOSE k \in 1..Len(s) :
                    s[k] = c /\ \A j \in 1..(k - 1) : s[j] # c
         IN  <<SubSeq(s, 1, i - 1)>> \o SplitOn(SubSeq(s, i + 1, Len(s)), c)
    ELSE <<s>>

\* The characters str.splitlines() breaks a text at; a carriage return and
\* the newline after it are one break.
LineBreaks == {"\n", "\r", "\f"}

\* The lines of s, after the characters of line on its current line.
RECURSIVE LinesAfter(_, _)
LinesAfter(s, line) ==
    IF s = <<>> THEN (IF line = <<>> THEN <<>> ELSE <<line>>)
    ELSE IF Len(s) >= 2 /\ s[1] = "\r" /\ s[2] = "\n"
        THEN <<line>> \o LinesAfter(SubSeq(s, 3, Len(s)), <<>>)
    ELSE IF Head(s) \in LineBreaks
        THEN <<line>> \o LinesAfter(Tail(s), <<>>)
    ELSE LinesAfter(Tail(s), Append(line, Head(s)))

\* str.splitlines(): no line for the empty text, none after a final break.
splitlines(s) == LinesAfter(s, <<>>)

\* str.partition(sep): the text before and after the first occurrence of
\* sep, which occurs in s.
Partition(s, sep) ==
    LET i == CHOOSE k \in 1..(Len(s) - Len(sep) + 1) :
                 /\ SubSeq(s, k, k + Len(sep) - 1) = sep
                 /\ \A j \in 1..(k - 1) : SubSeq(s, j, j + Len(sep) - 1) # sep
    IN  [before |-> SubSeq(s, 1, i - 1), after |-> SubSeq(s, i + Len(sep), Len(s))]

HasSub(s, sep) ==
    \E k \in 1..(Len(s) - Len(sep) + 1) : SubSeq(s, k, k + Len(sep) - 1) = sep

\* A (username, full_name) pair.
Pair(username, full_name) == [username |-> username, full_name |-> full_name]

\* csv.reader: the rows of the text, an empty line giving the empty row.
CsvRows(contents, delimiter) ==
    LET lines == SplitOn(contents, "\n")
    IN  [i \in 1..Len(lines) |->
           IF lines[i] = <<>> THEN <<>> ELSE SplitOn(lines[i], delimiter)]

\* row.get(key) on the dict csv.DictReader builds: the value of the last
\* column named key, None when the row has no such column or ends before it.
RowGet(fieldnames, row, key) ==
    LET idx == {j \in 1..Len(fieldnames) : fieldnames[j] = key}
    IN  IF idx = {} THEN None
        ELSE LET j == CHOOSE k \in idx : \A o \in idx : o <= k
             IN  IF j <= Len(row) THEN row[j] ELSE None

W_username == <<"u", "s", "e", "r", "n", "a", "m", "e">>
W_handle == <<"h", "a", "n", "d", "l", "e">>
W_user == <<"u", "s", "e", "r">>
W_profile_url == <<"p", "r", "o", "f", "i", "l", "e", " ", "u", "r", "l">>
W_profile == <<"p", "r", "o", "f", "i", "l", "e">>
W_full_name == <<"f", "u", "l", "l", "_", "n", "a", "m", "e">>
W_name == <<"n", "a", "m", "e">>
W_title == <<"t", "i", "t", "l", "e">>

UsernameAliases == <<W_username, W_handle, W_user, W_profile_url, W_profile>>
FullNameAliases == <<W_full_name, W_name, W_title>>

\* forms._parse_csv_export.  The text has a first line (the caller has seen
\* to it), so reader.fieldnames is never empty.
parse_csv_export(contents) ==
    LET first == splitlines(contents)[1]
        delimiter == IF Contains(first, ";") /\ ~Contains(first, ",") THEN ";" ELSE ","
        all == SelectSeq(CsvRows(contents, delimiter), LAMBDA r : r # <<>>)
        fieldnames == Head(all)
        data == Tail(all)
        username(row) ==
            OrChain([k \in 1..Len(UsernameAliases) |->
                       RowGet(fieldnames, row, UsernameAliases[k])])
        full_name(row) ==
            OrChain([k \in 1..Len(FullNameAliases) |->
                       RowGet(fieldnames, row, FullNameAliases[k])])
        pairs == [i \in 1..Len(data) |-> Pair(username(data[i]), full_name(data[i]))]
    IN  SelectSeq(pairs, LAMBDA p : Truthy(p.username))

\* forms._parse_plain_list, one line.
PlainLine(line) ==
    LET cleaned == Strip(line)
    IN  IF Contains(cleaned, ",")
        THEN LET p == Partition(cleaned, <<",">>) IN Pair(p.before, p.after)
        ELSE IF HasSub(cleaned, <<" ", "-", " ">>)
        THEN LET p == Partition(cleaned, <<" ", "-", " ">>) IN Pair(p.before, p.after)
        ELSE Pair(cleaned, None)

\* forms._parse_plain_list
parse_plain_list(contents) ==
    LET lines == SelectSeq(splitlines(contents), LAMBDA l : Strip(l) # <<>>)
    IN  [i \in 1..Len(lines) |-> PlainLine(lines[i])]

-----------------------------------------------------------------------------
(* json.loads on texts of strings without escapes, arrays, objects, the
   literals true, false, null and the constants NaN, Infinity, -Infinity.
   A parsed value is a node [t, v]: a string with its characters, a literal
   or a constant with its name, an array with its items, an object with
   its (key, value) pairs in the order of the text. *)

W_string_list_data == <<"s", "t", "r", "i", "n", "g", "_", "l", "i", "s", "t", "_", "d", "a", "t", "a">>
W_value == <<"v", "a", "l", "u", "e">>
W_href == <<"h", "r", "e", "f">>
W_null == <<"n", "u", "l", "l">>
W_true == <<"t", "r", "u", "e">>
W_false == <<"f", "a", "l", "s", "e">>
W_NaN == <<"N", "a", "N">>
W_Infinity == <<"I", "n", "f", "i", "n", "i", "t", "y">>
W_NegInfinity == <<"-", "I", "n", "f", "i", "n", "i", "t", "y">>

JNode(t, v) == [t |-> t, v |-> v]
JNull == JNode("lit", W_null)
JBad == [ok |-> FALSE, node |-> JNull, pos |-> 0]

\* The whitespace of JSON.
JsonWhitespace == {" ", "\t", "\n", "\r"}

\* The control characters, which a JSON string may not hold.
ControlChars == {"\t", "\n", "\f", "\r"}

\* The first position from i on that holds no JSON whitespace.
RECURSIVE SkipWs(_, _)
SkipWs(s, i) ==
    IF i <= Len(s) /\ s[i] \in JsonWhitespace THEN SkipWs(s, i + 1) ELSE i

\* A string whose opening quote is at i.
JsonString(s, i) ==
    LET closing == {k \in (i + 1)..Len(s) : s[k] = "\""}
    IN  IF closing = {} THEN JBad
        ELSE LET j == CHOOSE k \in closing : \A o \in closing : k <= o
                 chars == SubSeq(s, i + 1, j - 1)
             IN  IF \E k \in 1..Len(chars) : chars[k] \in ControlChars THEN JBad
                 ELSE [ok |-> TRUE, node |-> JNode("str", chars), pos |-> j + 1]

\* A container whose closing bracket has not been read: its kind, the
\* items or members read so far, and for an object the key last read.
JFrame(t, v, k) == [t |-> t, v |-> v, k |-> k]

\* The stack after the value node is complete: the value joins the
\* container on top of the stack.
JPush(stack, node) ==
    LET top == stack[Len(stack)]
        item == IF top.t = "arr" THEN node ELSE [k |-> top.k, v |-> node]
    IN  [stack EXCEPT ![Len(stack)] = JFrame(top.t, Append(top.v, item), top.k)]

\* The reader at position i, inside the containers on the stack, when it
\* expects a value, a key, a colon, a comma or the end of the text; done is
\* the value of the whole text once it is complete.
RECURSIVE JsonRun(_, _, _, _, _)
JsonRun(s, i, stack, expect, done) ==
    LET j == SkipWs(s, i)
        c == s[j]
        rest == SubSeq(s, j, Len(s))
        depth == Len(stack)
        top == stack[depth]
        below == SubSeq(stack, 1, depth - 1)
        Complete(node, pos, st) ==
            IF Len(st) = 0 THEN JsonRun(s, pos, st, "end", node)
            ELSE JsonRun(s, pos, JPush(st, node), "comma", done)
        str == JsonString(s, j)
    IN  IF expect = "end"
        THEN IF j > Len(s) THEN [ok |-> TRUE, node |-> done, pos |-> j] ELSE JBad
        ELSE IF j > Len(s) THEN JBad
        ELSE IF expect \in {"value", "first_value"} THEN
            IF c = "\"" THEN (IF str.ok THEN Complete(str.node, str.pos, stack) ELSE JBad)
            ELSE IF c = "[" THEN
                JsonRun(s, j + 1, Append(stack, JFrame("arr", <<>>, <<>>)), "first_value", done)
            ELSE IF c = "{" THEN
                JsonRun(s, j + 1, Append(stack, JFrame("obj", <<>>, <<>>)), "first_key", done)
            ELSE IF c = "]" /\ expect = "first_value"
                THEN Complete(JNode("arr", <<>>), j + 1, below)
            ELSE IF StartsWith(rest, W_true) THEN Complete(JNode("lit", W_true), j + 4, stack)
            ELSE IF StartsWith(rest, W_false) THEN Complete(JNode("lit", W_false), j + 5, stack)
            ELSE IF StartsWith(rest, W_null) THEN Complete(JNode("lit", W_null), j + 4, stack)
            ELSE IF StartsWith(rest, W_NaN) THEN Complete(JNode("num", W_NaN), j + 3, stack)
            ELSE IF StartsWith(rest, W_Infinity)
                THEN Complete(JNode("num", W_Infinity), j + 8, stack)
            ELSE IF StartsWith(rest, W_NegInfinity)
                THEN Complete(JNode("num", W_NegInfinity), j + 9, stack)
            ELSE JBad
        ELSE IF expect \in {"key", "first_key"} THEN
            IF c = "\"" THEN
                (IF str.ok
                 THEN JsonRun(s, str.pos,
                              [stack EXCEPT ![depth] = JFrame(top.t, top.v, str.node.v)],
                              "colon", done)
                 ELSE JBad)
            ELSE IF c = "}" /\ expect = "first_key"
                THEN Complete(JNode("obj", <<>>), j + 1, below)
            ELSE JBad
        ELSE IF expect = "colon" THEN
            IF c = ":" THEN JsonRun(s, j + 1, stack, "value", done) ELSE JBad
        ELSE \* expect = "comma": a comma or the closing bracket of the container
            IF c = "," THEN
                JsonRun(s, j + 1, stack, IF top.t = "arr" THEN "value" ELSE "key", done)
            ELSE IF c = "]" /\ top.t = "arr" THEN Complete(JNode("arr", top.v), j + 1, below)
            ELSE IF c = "}" /\ top.t = "obj" THEN Complete(JNode("obj", top.v), j + 1, below)
            ELSE JBad

\* json.loads(contents): ok is FALSE where it raises JSONDecodeError.
json_loads(contents) == JsonRun(contents, 1, <<>>, "value", JNull)

-----------------------------------------------------------------------------
(* forms._parse_json_export *)

\* Python's truth value of a parsed value: nan and the infinities are true.
JTruthy(n) == IF n.t = "lit" THEN n.v = W_true ELSE n.v # <<>>

\* a or b or ... on parsed values.
RECURSIVE JOr(_)
JOr(nodes) ==
    IF Len(nodes) = 1 \/ JTruthy(Head(nodes)) THEN Head(nodes) ELSE JOr(Tail(nodes))

\* key in obj
JHas(obj, key) == \E i \in 1..Len(obj.v) : obj.v[i].k = key

\* obj.get(key): a key that occurs twice in the text has its last value.
JGet(obj, key) ==
    IF JHas(obj, key)
    THEN obj.v[CHOOSE i \in 1..Len(obj.v) :
                  obj.v[i].k = key /\ \A j \in (i + 1)..Len(obj.v) : obj.v[j].k # key].v
    ELSE JNull

\* obj.items(): every key once, at the place of its first occurrence.
JItems(obj) ==
    LET firsts == SelectSeq([i \in 1..Len(obj.v) |-> i],
                            LAMBDA i : \A j \in 1..(i - 1) : obj.v[j].k # obj.v[i].k)
    IN  [n \in 1..Len(firsts) |->
           [k |-> obj.v[firsts[n]].k, v |-> JGet(obj, obj.v[firsts[n]].k)]]

\* Lists and dicts cannot be hashed: a key that holds one raises TypeError.
Unhashable(n) == n.t \in {"arr", "obj"}

\* The position of the first c in s from position start on, 0 if none.
Find(s, c, start) ==
    LET at == {k \in start..Len(s) : s[k] = c}
    IN  IF at = {} THEN 0 ELSE CHOOSE k \in at : \A o \in at : k <= o

\* s up to its first c, the whole of s if it has none.
UpTo(s, c) == IF Find(s, c, 1) = 0 THEN s ELSE SubSeq(s, 1, Find(s, c, 1) - 1)

\* str.strip("/")
RECURSIVE StripSlash(_)
StripSlash(s) ==
    IF s # <<>> /\ Head(s) = "/" THEN StripSlash(Tail(s))
    ELSE IF s # <<>> /\ s[Len(s)] = "/" THEN StripSlash(SubSeq(s, 1, Len(s) - 1))
    ELSE s

\* urllib.parse.scheme_chars
SchemeChars ==
    {UpperLetters[i] : i \in 1..Len(UpperLetters)}
    \cup {LowerLetters[i] : i \in 1..Len(LowerLetters)}
    \cup {"0", "1", "2", "3", "4", "5", "6", "7", "8", "9", "+", "-", "."}

IsAlpha(c) == c \in SchemeChars \ {"0", "1", "2", "3", "4", "5", "6", "7", "8", "9", "+", "-", "."}

\* urllib.parse.uses_params
UsesParams ==
    { <<>>,
      <<"f", "t", "p">>,
      <<"h", "d", "l">>,
      <<"p", "r", "o", "s", "p", "e", "r", "o">>,
      <<"h", "t", "t", "p">>,
      <<"i", "m", "a", "p">>,
      <<"h", "t", "t", "p", "s">>,
      <<"s", "h", "t", "t", "p">>,
      <<"r", "t", "s", "p">>,
      <<"r", "t", "s", "p", "s">>,
      <<"r", "t", "s", "p", "u">>,
      <<"s", "i", "p">>,
      <<"s", "i", "p", "s">>,
      <<"m", "m", "s">>,
      <<"s", "f", "t", "p">>,
      <<"t", "e", "l">> }

\* urllib.parse.urlparse(url).path, for a url without square brackets.
UrlPath(url) ==
    LET stripped == SelectSeq(LStripSpace(url), LAMBDA c : c \notin {"\t", "\r", "\n"})
        colon == Find(stripped, ":", 1)
        has_scheme == /\ colon > 1
                      /\ IsAlpha(stripped[1])
                      /\ \A k \in 1..(colon - 1) : stripped[k] \in SchemeChars
        scheme == IF has_scheme THEN Lower(SubSeq(stripped, 1, colon - 1)) ELSE <<>>
        rest == IF has_scheme THEN SubSeq(stripped, colon + 1, Len(stripped))
                ELSE stripped
        delims == {k \in 3..Len(rest) : rest[k] \in {"/", "?", "#"}}
        delim == IF delims = {} THEN Len(rest) + 1
                 ELSE CHOOSE k \in delims : \A o \in delims : k <= o
        after_netloc == IF StartsWith(rest, <<"/", "/">>)
                        THEN SubSeq(rest, delim, Len(rest)) ELSE rest
        path == UpTo(UpTo(after_netloc, "#"), "?")
        slashes == {k \in 1..Len(path) : path[k] = "/"}
        last_slash == IF slashes = {} THEN 1
                      ELSE CHOOSE k \in slashes : \A o \in slashes : o <= k
        semicolon == Find(path, ";", last_slash)
    IN  IF scheme \in UsesParams /\ semicolon # 0
        THEN SubSeq(path, 1, semicolon - 1)
        ELSE path

\* forms._username_from_href: the first segment of the path of the href.
username_from_href(href) ==
    IF ~JTruthy(href) THEN JNull
    ELSE LET path == StripSlash(UrlPath(href.v))
         IN  IF path = <<>> THEN JNull ELSE JNode("str", UpTo(path, "/"))

\* The state of _parse_json_export: the entries found, and whether a
\* statement has raised.
JState(entries, raises) == [entries |-> entries, raises |-> raises]

\* if username and key not in seen: entries.append(...); seen.add(key)
JAdd(st, username, full_name) ==
    IF st.raises \/ ~JTruthy(username) THEN st
    ELSE IF Unhashable(username) \/ Unhashable(full_name)
        THEN JState(st.entries, TRUE)
    ELSE IF \E i \in 1..Len(st.entries) :
              st.entries[i].username = username /\ st.entries[i].full_name = full_name
        THEN st
    ELSE JState(Append(st.entries, Pair(username, full_name)), FALSE)

\* The loop over obj["string_list_data"], lines 155-162.
RECURSIVE ExtractListData(_, _, _)
ExtractListData(items, display_name, st) ==
    IF items = <<>> \/ st.raises THEN st
    ELSE LET item == Head(items)
             href == IF item.t = "obj" THEN JGet(item, W_href) ELSE JNull
             by_value == IF item.t = "obj" THEN JGet(item, W_value) ELSE JNull
             href_raises == ~JTruthy(by_value) /\ JTruthy(href) /\ href.t # "str"
             username == IF JTruthy(by_value) \/ href_raises THEN by_value
                         ELSE username_from_href(href)
             full_name == IF item.t = "obj"
                          THEN JOr(<<display_name, JGet(item, W_title), JGet(item, W_name)>>)
                          ELSE JNull
         IN  IF item.t # "obj" \/ href_raises THEN JState(st.entries, TRUE)
             ELSE ExtractListData(Tail(items), display_name, JAdd(st, username, full_name))

RECURSIVE extract(_, _, _), ExtractAll(_, _, _)

\* forms._parse_json_export.extract
extract(obj, context_name, st) ==
    IF st.raises THEN st
    ELSE IF obj.t = "obj" THEN
        IF JHas(obj, W_string_list_data) /\ JGet(obj, W_string_list_data).t = "arr"
        THEN ExtractListData(JGet(obj, W_string_list_data).v,
                             JOr(<<JGet(obj, W_title), JGet(obj, W_name), context_name>>),
                             st)
        ELSE LET st1 == IF JHas(obj, W_username)
                        THEN JAdd(st, JGet(obj, W_username),
                                  JOr(<<JGet(obj, W_full_name), JGet(obj, W_name)>>))
                        ELSE st
                 st2 == IF JHas(obj, W_value) /\ ~Unhashable(JGet(obj, W_value))
                        THEN JAdd(st1, JGet(obj, W_value),
                                  JOr(<<JGet(obj, W_title), JGet(obj, W_name), context_name>>))
                        ELSE st1
                 nested == SelectSeq(JItems(obj),
                                     LAMBDA m : m.k # W_string_list_data /\ Unhashable(m.v))
             IN  ExtractAll([i \in 1..Len(nested) |-> nested[i].v],
                            JOr(<<JGet(obj, W_title), context_name>>), st2)
    ELSE IF obj.t = "arr" THEN ExtractAll(obj.v, context_name, st)
    ELSE st

\* extract applied to each of the values in turn.
ExtractAll(values, context_name, st) ==
    IF values = <<>> THEN st
    ELSE ExtractAll(Tail(values), context_name, extract(Head(values), context_name, st))

\* A truthy value that is no string, where a string is expected.
NotStr == <<"NotStr">>

\* A parsed value as the Python object the callers of _parse_json_export
\* work on.
PyValue(n) ==
    IF n.t = "str" THEN n.v ELSE IF JTruthy(n) THEN NotStr ELSE None

\* forms._parse_json_export: the pairs it returns, raises where a statement
\* of it raises.
parse_json_export(contents) ==
    LET Entries(st) ==
            [rows |-> [i \in 1..Len(st.entries) |->
                         Pair(PyValue(st.entries[i].username),
                              PyValue(st.entries[i].full_name))],
             raises |-> st.raises]
        Extracted(payload) ==
            IF ~payload.ok THEN [rows |-> <<>>, raises |-> FALSE]
            ELSE Entries(extract(payload.node, JNull, JState(<<>>, FALSE)))
    IN  Extracted(json_loads(contents))

-----------------------------------------------------------------------------
(* forms.parse_snapshot_file *)

Ext_json == <<".", "j", "s", "o", "n">>
Ext_csv == <<".", "c", "s", "v">>

\* forms._looks_like_json
looks_like_json(filename, contents) ==
    \/ EndsWith(filename, Ext_json)
    \/ StartsWith(contents, <<"[">>)
    \/ StartsWith(contents, <<"{">>)

\* forms._looks_like_csv, for contents with a first line.
looks_like_csv(filename, contents) ==
    \/ EndsWith(filename, Ext_csv)
    \/ Contains(splitlines(contents)[1], ",")
    \/ Contains(splitlines(contents)[1], ";")

\* contents.splitlines()[0] raises IndexError: in _looks_like_csv unless the
\* filename ends in .csv, in _parse_csv_export otherwise.
FirstLineRaises(contents) == splitlines(contents) = <<>>

\* forms.parse_snapshot_file, lines 62-74: the pairs of the first strategy
\* in the chain that yields some, the strategy, and raises where a
\* statement on the way raises.
ChainRows(filename, stripped) ==
    LET Plain(rows) == [rows |-> rows, strategy |-> "plain", raises |-> FALSE]
        AfterCsv(rows) ==
            IF rows # <<>> THEN [rows |-> rows, strategy |-> "csv", raises |-> FALSE]
            ELSE Plain(parse_plain_list(stripped))
        AfterJson(json) ==
            IF json.raises THEN [rows |-> <<>>, strategy |-> "json", raises |-> TRUE]
            ELSE IF json.rows # <<>>
                THEN [rows |-> json.rows, strategy |-> "json", raises |-> FALSE]
            ELSE IF FirstLineRaises(stripped)
                THEN [rows |-> <<>>, strategy |-> "csv", raises |-> TRUE]
            ELSE AfterCsv(IF looks_like_csv(filename, stripped)
                          THEN parse_csv_export(stripped) ELSE <<>>)
    IN  AfterJson(IF looks_like_json(filename, stripped)
                  THEN parse_json_export(stripped)
                  ELSE [rows |-> <<>>, raises |-> FALSE])

\* full_name.strip() if full_name else None (line 83)
CleanName(full_name) == IF Truthy(full_name) THEN Strip(full_name) ELSE None

\* A plausible slip: a later pair of an identity replaces the one kept.
RECURSIVE UniqueLoopLastWins(_, _)
UniqueLoopLastWins(rows, unique) ==
    IF rows = <<>> THEN [rows |-> unique, raises |-> FALSE]
    ELSE IF Head(rows).username = NotStr THEN [rows |-> unique, raises |-> TRUE]
    ELSE LET normalized == IF Head(rows).username = None THEN <<>>
                           ELSE normalize_username(Head(rows).username)
             full_name == Head(rows).full_name
             at == {i \in 1..Len(unique) : unique[i].username = normalized}
         IN  IF normalized = <<>> THEN UniqueLoopLastWins(Tail(rows), unique)
             ELSE IF full_name = NotStr THEN [rows |-> unique, raises |-> TRUE]
             ELSE IF at # {}
                 THEN UniqueLoopLastWins(Tail(rows),
                        [unique EXCEPT ![CHOOSE i \in at : TRUE] =
                            Pair(normalized, CleanName(full_name))])
             ELSE UniqueLoopLastWins(Tail(rows),
                    Append(unique, Pair(normalized, CleanName(full_name))))

\* forms.parse_snapshot_file, lines 76-84: the loop that fills unique, from
\* the pairs still to visit and the pairs kept so far.
RECURSIVE UniqueLoop(_, _)
UniqueLoop(rows, unique) ==
    IF rows = <<>> THEN [rows |-> unique, raises |-> FALSE]
    ELSE IF Head(rows).username = NotStr THEN [rows |-> unique, raises |-> TRUE]
    ELSE LET normalized == IF Head(rows).username = None THEN <<>>
                           ELSE normalize_username(Head(rows).username)
             full_name == Head(rows).full_name
         IN  IF normalized = <<>> THEN UniqueLoop(Tail(rows), unique)
             ELSE IF \E i \in 1..Len(unique) : unique[i].username = normalized
                 THEN UniqueLoop(Tail(rows), unique)
             ELSE IF full_name = NotStr THEN [rows |-> unique, raises |-> TRUE]
             ELSE UniqueLoop(Tail(rows),
                    Append(unique, Pair(normalized, CleanName(full_name))))

\* forms.parse_snapshot_file on a file with this name and text: the pairs
\* it returns, the pairs and the strategy they come from, and raises where
\* it raises instead of returning.
parse_snapshot_file(filename, text) ==
    LET Returned(chain, unique) ==
            [rows |-> IF unique.raises THEN <<>> ELSE unique.rows,
             raw |-> chain.rows, strategy |-> chain.strategy,
             raises |-> unique.raises]
        AfterChain(chain) ==
            IF chain.raises
            THEN [rows |-> <<>>, raw |-> <<>>, strategy |-> chain.strategy,
                  raises |-> TRUE]
            ELSE Returned(chain, UniqueLoop(chain.rows, <<>>))
    IN  IF text = <<>>
        THEN [rows |-> <<>>, raw |-> <<>>, strategy |-> "none", raises |-> FALSE]
        ELSE AfterChain(ChainRows(Lower(filename), Strip(text)))

-----------------------------------------------------------------------------
(* Calls of the pure functions *)

\* The strings the normalizers are called with.
NormChars == {" ", "@", "a", "A"}
NormStrings == SeqsUpTo(NormChars, MaxStrLen)

\* The elements of the lists compute_diff is called with.
DiffStrings == {<<>>, <<"a">>, <<"B">>, <<" ", "b">>}
DiffLists == SeqsUpTo(DiffStrings, MaxListLen)

Normalize(fn, x) ==
    IF fn = "normalize_username" THEN normalize_username(x)
    ELSE views_normalize_username(x)

\* The other case of a letter.
SwapCase(c) ==
    IF c = "a" THEN "A" ELSE IF c = "A" THEN "a"
    ELSE IF c = "b" THEN "B" ELSE IF c = "B" THEN "b" ELSE c

\* The strings that differ from e in the case of one letter or in one
\* whitespace character at its front or end.
Variants(e) ==
    {<<" ">> \o e, e \o <<" ">>}
    \cup (IF e # <<>> /\ IsSpace(Head(e)) THEN {Tail(e)} ELSE {})
    \cup (IF e # <<>> /\ IsSpace(e[Len(e)]) THEN {SubSeq(e, 1, Len(e) - 1)} ELSE {})
    \cup {[e EXCEPT ![i] = SwapCase(e[i])] : i \in {j \in 1..Len(e) : SwapCase(e[j]) # e[j]}}

\* The files parse_snapshot_file is called with, beside the tables below.
\* An empty file
F_empty ==
    [filename |->
       <<"x", ".", "t", "x", "t">>,
     text |->
       <<>>]

\* Whitespace only
F_blank ==
    [filename |->
       <<"x", ".", "t", "x", "t">>,
     text |->
       <<" ", "\n">>]

\* A plain list that repeats an identity and has a line without one
F_plain_repeat ==
    [filename |->
       <<"x">>,
     text |->
       <<"a", "\n", "@", "A", ",", "B", "\n", "@">>]

ParseFiles ==
    {F_empty, F_blank, F_plain_repeat}
    \cup {
        \* Malformed JSON
        [filename |->
           <<"a", ".", "j", "s", "o", "n">>,
         text |->
           <<"[">>],
        \* JSON without an entry, no extension
        [filename |->
           <<"x">>,
         text |->
           <<"[", "]">>],
        \* JSON entries, no extension
        [filename |->
           <<"x">>,
         text |->
           <<"[", "{", "\"", "u", "s", "e", "r", "n", "a", "m", "e", "\"", ":",
             "\"", "a", "\"", "}", ",", "{", "\"", "u", "s", "e", "r", "n", "a",
             "m", "e", "\"", ":", "\"", "A", "\"", ",", "\"", "n", "a", "m", "e",
             "\"", ":", "\"", "B", "\"", "}", "]">>],
        \* JSON whose username is no string
        [filename |->
           <<"a", ".", "j", "s", "o", "n">>,
         text |->
           <<"{", "\"", "u", "s", "e", "r", "n", "a", "m", "e", "\"", ":", "t",
             "r", "u", "e", "}">>],
        \* An Instagram string_list_data export
        [filename |->
           <<"a", ".", "j", "s", "o", "n">>,
         text |->
           <<"{", "\"", "t", "i", "t", "l", "e", "\"", ":", "\"", "B", "\"", ",",
             "\"", "s", "t", "r", "i", "n", "g", "_", "l", "i", "s", "t", "_",
             "d", "a", "t", "a", "\"", ":", "[", "{", "\"", "v", "a", "l", "u",
             "e", "\"", ":", "\"", "@", "a", "\"", "}", "]", "}">>],
        \* A plain list
        [filename |->
           <<"x">>,
         text |->
           <<"a", "\n", "@", "b", "\n">>],
        \* A plain list with display names
        [filename |->
           <<"x", ".", "t", "x", "t">>,
         text |->
           <<"a", " ", "-", " ", "B", "\n", "b", ",">>],
        \* Delimited rows without a header
        [filename |->
           <<"f", ".", "c", "s", "v">>,
         text |->
           <<"a", ";", "B", "\n", "b">>]}

\* Delimited files with a header row: the header cells, and the cells a
\* data row is made of.
TableHeaders ==
    {<<W_user, W_name>>, <<<<"U", "s", "e", "r">>, W_name>>, <<W_handle, W_user>>}
TableCells == {<<>>, <<"a">>, <<"@", "A">>, <<" ">>}

\* The lines, or the cells, joined by sep.
RECURSIVE Join(_, _)
Join(parts, sep) ==
    IF parts = <<>> THEN <<>>
    ELSE IF Len(parts) = 1 THEN Head(parts)
    ELSE Head(parts) \o <<sep>> \o Join(Tail(parts), sep)

\* The text of the comma-delimited file with this header and these rows.
TableText(header, data) ==
    Join(<<Join(header, ",")>> \o [i \in 1..Len(data) |-> Join(data[i], ",")], "\n")

NoResult == [rows |-> <<>>, raw |-> <<>>, strategy |-> "none", raises |-> FALSE]

InitFn ==
    /\ db = {}
    /\ accounts = [a \in Accounts |->
                     [instagram_username |-> TypedUsername(a),
                      instagram_user_id |-> "none"]]
    /\ next_id = 1
    /\ now = 0
    /\ connected = FALSE
    /\ available = FALSE
    /\ req = [r \in Requests |-> IdleReq]
    /\ \/ \E fn \in {"normalize_username", "_normalize_username"}, x \in NormStrings :
            probe = [op |-> "normalize", fn |-> fn, x |-> x, n |-> 0,
                     y |-> <<>>, z |-> <<>>]
       \/ \E old \in DiffLists, new \in DiffLists :
            probe = [op |-> "diff", old |-> old, new |-> new, n |-> 0,
                     first |-> <<>>, old2 |-> old, new2 |-> new, second |-> <<>>]
       \/ \E f \in ParseFiles :
            probe = [op |-> "parse", filename |-> f.filename, text |-> f.text,
                     header |-> <<>>, data |-> <<>>, n |-> 0, result |-> NoResult,
                     lowered |-> NoResult]
       \/ \E header \in TableHeaders :
            \E data \in SeqsUpTo([1..Len(header) -> TableCells], MaxDataRows) :
                probe = [op |-> "parse", filename |-> <<"f">> \o Ext_csv,
                         text |-> TableText(header, data),
                         header |-> header, data |-> data, n |-> 0,
                         result |-> NoResult, lowered |-> NoResult]

\* normalize_username(x), or _normalize_username(x), is computed.
NormalizeOnce ==
    /\ probe.op = "normalize" /\ probe.n = 0
    /\ probe' = [probe EXCEPT !.n = 1, !.y = Normalize(probe.fn, probe.x)]
    /\ UNCHANGED <<db, accounts, next_id, now, connected, available, req>>

\* The function is applied to its own result.
NormalizeAgain ==
    /\ probe.op = "normalize" /\ probe.n = 1
    /\ probe' = [probe EXCEPT !.n = 2, !.z = Normalize(probe.fn, probe.y)]
    /\ UNCHANGED <<db, accounts, next_id, now, connected, available, req>>

\* compute_diff(old, new) is computed.
DiffOnce ==
    /\ probe.op = "diff" /\ probe.n = 0
    /\ probe' = [probe EXCEPT !.n = 1, !.first = compute_diff(probe.old, probe.new)]
    /\ UNCHANGED <<db, accounts, next_id, now, connected, available, req>>

\* One element of old or of new changes its case or its surrounding
\* whitespace.
DiffVary ==
    /\ probe.op = "diff" /\ probe.n = 1
    /\ \/ \E i \in 1..Len(probe.old) : \E v \in Variants(probe.old[i]) :
            probe' = [probe EXCEPT !.n = 2, !.old2 = [probe.old EXCEPT ![i] = v]]
       \/ \E i \in 1..Len(probe.new) : \E v \in Variants(probe.new[i]) :
            probe' = [probe EXCEPT !.n = 2, !.new2 = [probe.new EXCEPT ![i] = v]]
    /\ UNCHANGED <<db, accounts, next_id, now, connected, available, req>>

\* compute_diff is computed for the changed lists.
DiffAgain ==
    /\ probe.op = "diff" /\ probe.n = 2
    /\ probe' = [probe EXCEPT !.n = 3, !.second = compute_diff(probe.old2, probe.new2)]
    /\ UNCHANGED <<db, accounts, next_id, now, connected, available, req>>

\* parse_snapshot_file is called with the file.
ParseFile ==
    /\ probe.op = "parse" /\ probe.n = 0
    /\ probe' = [probe EXCEPT !.n = 1,
                   !.result = parse_snapshot_file(probe.filename, probe.text)]
    /\ UNCHANGED <<db, accounts, next_id, now, connected, available, req>>

\* The header cells in lower case.
LowerHeader(header) == [i \in 1..Len(header) |-> Lower(header[i])]

\* parse_snapshot_file is called with the same table under the header in
\* lower case.
ParseLowered ==
    /\ probe.op = "parse" /\ probe.n = 1 /\ probe.header # <<>>
    /\ probe' = [probe EXCEPT !.n = 2,
                   !.lowered = parse_snapshot_file(probe.filename,
                                   TableText(LowerHeader(probe.header), probe.data))]
    /\ UNCHANGED <<db, accounts, next_id, now, connected, available, req>>

NextFn ==
    \/ ParseFile
    \/ ParseLowered
    \/ NormalizeOnce
    \/ NormalizeAgain
    \/ DiffOnce
    \/ DiffVary
    \/ DiffAgain

SpecFn == InitFn /\ [][NextFn]_vars

-----------------------------------------------------------------------------
(* views.py: the upload and export handlers, one request after the other *)

W_followers == <<"f", "o", "l", "l", "o", "w", "e", "r", "s">>
W_following == <<"f", "o", "l", "l", "o", "w", "i", "n", "g">>
W_csv == <<"c", "s", "v">>

\* forms.ValidationError raised instead of a value returned.
ValidationError == <<"ValidationError">>

\* A plausible slip: the value compared as it was sent.
validate_snapshot_type_as_sent(value) ==
    IF value \in {W_followers, W_following} THEN value ELSE ValidationError

\* forms.validate_snapshot_type
validate_snapshot_type(value) ==
    LET normalized == Lower(Strip(value))
    IN  IF normalized \in {W_followers, W_following} THEN normalized
        ELSE ValidationError

\* forms.validate_export_format
validate_export_format(value) ==
    LET normalized == Lower(Strip(value))
    IN  IF normalized \in {W_csv, <<"x", "l", "s", "x">>} THEN normalized ELSE ValidationError

\* The user of the requests, another user, and the TrackedAccount rows:
\* account 1 belongs to the current user, account 2 to the other one.
CurrentUser == "user1"
AccountRows ==
    <<[user_id |-> CurrentUser, instagram_username |-> <<"A">>,
       instagram_user_id |-> "none", profile_picture_url |-> "none"],
      [user_id |-> "user2", instagram_username |-> <<"B">>,
       instagram_user_id |-> "none", profile_picture_url |-> "none"]>>

\* The account ids of the requests: the user's own account, the other
\* user's account and an id no account has.
AccountIds == 1..(Len(AccountRows) + 1)

\* abort(404) instead of an account returned.
NotFound == 0

\* A plausible slip: the account looked up by its id alone.
get_account_any_owner(accts, account_id, user_id) ==
    IF account_id \in DOMAIN accts THEN account_id ELSE NotFound

\* views._get_account_or_404: the id of the account, NotFound for abort(404).
get_account_or_404(accts, account_id, user_id) ==
    IF account_id \in DOMAIN accts /\ accts[account_id].user_id = user_id
    THEN account_id
    ELSE NotFound

\* export_limit = None
NoLimit == -1

\* sorted(entries, key=lower): e put behind the entries whose key is not
\* greater than its own.
RECURSIVE InsertByLower(_, _)
InsertByLower(sorted, e) ==
    IF sorted = <<>> THEN <<e>>
    ELSE IF StrLess(Lower(e), Lower(Head(sorted))) THEN <<e>> \o sorted
    ELSE <<Head(sorted)>> \o InsertByLower(Tail(sorted), e)

RECURSIVE SortedByLower(_, _)
SortedByLower(entries, sorted) ==
    IF entries = <<>> THEN sorted
    ELSE SortedByLower(Tail(entries), InsertByLower(sorted, Head(entries)))

\* views._snapshot_entries: the usernames of the rows it returns.
snapshot_entries(snapshot, limit) ==
    LET entries == SortedByLower(snapshot.entries, <<>>)
    IN  IF limit # NoLimit
        THEN SubSeq(entries, 1, IF limit < Len(entries) THEN limit ELSE Len(entries))
        ELSE entries

\* views._create_export_token: the payload the token carries, and the time
\* URLSafeTimedSerializer signs it with.  NoToken is the empty string.
NoToken ==
    [snapshot_id |-> NoSnapshot, account_id |-> NotFound, snapshot_type |-> "none",
     format |-> <<>>, limit |-> NoLimit, issued_at |-> 0]
create_export_token(snapshot, export_format, limit) ==
    [snapshot_id |-> snapshot.id, account_id |-> snapshot.account,
     snapshot_type |-> snapshot.type, format |-> export_format, limit |-> limit,
     issued_at |-> now]

\* views._store_snapshot called for an account, a type and entries at a
\* time when the table holds S: the row it adds, previous_snapshot being
\* the row with id prev.
StoredSnapshot(S, id, a, t, at, entries, rows, prev) ==
    LET usernames == StoreUsernames(entries)
    IN  WithEntries(Snapshot(id, a, t, at, usernames, rows, prev),
                    usernames, StoreDiff(S, prev, usernames))

\* The ids account.latest_snapshot(t) can give to previous_snapshot.
PreviousIds(S, a, t) ==
    IF latest_snapshot(S, a, t) = {} THEN {NoSnapshot}
    ELSE {p.id : p \in latest_snapshot(S, a, t)}

\* What a handler answers with.  status is the outcome (an error is the
\* same error as JSON and as a flashed message), data the usernames
\* of the rows the export is made of, limited, total_rows and exported_rows
\* the fields of the JSON payload (limited is FALSE where the payload has
\* none of them), flashed the warning of a capped export, token what the
\* download URL carries, snapshot the id of the snapshot exported.
Response(handler, status) ==
    [handler |-> handler, status |-> status, json |-> FALSE, data |-> <<>>,
     limited |-> FALSE, total_rows |-> 0, exported_rows |-> 0,
     flashed |-> FALSE, token |-> NoToken, snapshot |-> NoSnapshot]

\* The files of the upload requests.
F_three ==
    [filename |->
       <<"x", ".", "t", "x", "t">>,
     text |->
       <<"b", "\n", "a", "b", "\n", "@", "A">>]

\* A plain list whose only line, '@ @', is a row for the parser and no
\* entry for _prepare_entries.
F_at_at ==
    [filename |->
       <<"x", ".", "t", "x", "t">>,
     text |->
       <<"@", " ", "@">>]

\* A plain list of one username
F_one ==
    [filename |->
       <<"x", ".", "t", "x", "t">>,
     text |->
       <<"a">>]

NoFile == [filename |-> <<>>, text |-> <<>>]

RequestFiles == {NoFile, F_empty, F_blank, F_at_at, F_one, F_three}

\* The snapshot_type and export_format fields of the forms.
TypeInputs ==
    {W_followers, <<" ", "F">> \o Tail(W_following),
     SubSeq(W_followers, 1, Len(W_followers) - 1)}
FormatInputs == {W_csv, <<>>}

\* The usernames InstagramService.fetch_relationships returns to an export.
ExportSyncInputs == {<<S_A, S_at_a>>}

\* A request as the handler receives it and its response.
Request(handler, account_id, type_raw, response) ==
    [handler |-> handler, account_id |-> account_id, type_raw |-> type_raw,
     response |-> response]

\* No request has been answered since the last change from outside.
NoRequest == Request("none", NotFound, <<>>, Response("none", "none"))

InitReq ==
    /\ db = {}
    /\ accounts = AccountRows
    /\ next_id = 1
    /\ now = 0
    /\ connected = TRUE
    /\ available \in BOOLEAN
    /\ req = [r \in Requests |-> IdleReq]
    /\ \E max_free \in {0, MaxFreeExport}, is_subscribed \in BOOLEAN :
         /\ is_subscribed => max_free = MaxFreeExport
         /\ probe = [op |-> "request", max_free |-> max_free,
                  is_subscribed |-> is_subscribed,
                  last |-> Request("none", NotFound, <<>>, Response("none", "none"))]

\* The request is answered and the stored state is left as it is.
Answer(handler, account_id, type_raw, response) ==
    /\ probe' = [probe EXCEPT !.last = Request(handler, account_id, type_raw, response)]
    /\ UNCHANGED <<db, accounts, next_id, now, connected, available, req>>

\* forms.parse_snapshot_file on the files of the requests.
ParsedFiles ==
    [file \in RequestFiles |-> parse_snapshot_file(file.filename, file.text)]

\* views.upload_snapshot, lines 347-372, for a request whose account and
\* snapshot type are valid: the file, which parses to parsed, is read and
\* its rows are stored, while fewer than room Snapshot rows have been
\* inserted.
UploadFile(file, parsed, account_id, type_raw, room) ==
    LET account == get_account_or_404(accounts, account_id, CurrentUser)
        snapshot_type == validate_snapshot_type(type_raw)
        entries == prepare_entries([i \in 1..Len(parsed.rows) |->
                                      parsed.rows[i].username])
        Reply(status) == Answer("upload", account_id, type_raw,
                                Response("upload", status))
    IN  IF file.filename = <<>> THEN Reply("no_file")
        ELSE IF parsed.raises THEN Reply("error")
        ELSE IF parsed.rows = <<>> THEN Reply("no_rows")
        ELSE /\ next_id <= room
             /\ \E prev \in PreviousIds(db, account, snapshot_type) :
                  db' = CommitRows(db,
                          {StoredSnapshot(db, next_id, account, snapshot_type, now,
                                          entries, Len(parsed.rows), prev)})
             /\ next_id' = next_id + 1
             /\ probe' = [probe EXCEPT !.last =
                            Request("upload", account_id, type_raw,
                                    Response("upload", "stored"))]
             /\ UNCHANGED <<accounts, now, connected, available, req>>

\* views.upload_snapshot, for requests with these files, account ids and
\* snapshot types.
UploadOf(files, account_ids, types, room) ==
    \E account_id \in account_ids, type_raw \in types :
        LET account == get_account_or_404(accounts, account_id, CurrentUser)
            snapshot_type == validate_snapshot_type(type_raw)
            Reply(status) == Answer("upload", account_id, type_raw,
                                    Response("upload", status))
        IN  IF account = NotFound THEN Reply("404")
            ELSE IF snapshot_type = ValidationError THEN Reply("invalid_type")
            ELSE \E file \in files :
                   \E parsed \in {ParsedFiles[file]} :
                     UploadFile(file, parsed, account_id, type_raw, room)

Upload == UploadOf(RequestFiles, AccountIds, TypeInputs, MaxStored)

\* views.export_snapshot, lines 407-443: the response for the snapshot
\* latest_snapshot has returned.
ExportResponse(latest, export_format, expects_json) ==
    LET total_rows == Len(latest.entries)
        max_free == probe.max_free
        capped == ~probe.is_subscribed /\ total_rows > max_free
        export_limit == IF capped THEN max_free ELSE NoLimit
        data == snapshot_entries(latest, export_limit)
        truthy == export_limit # NoLimit /\ export_limit # 0
    IN  [Response("export", "ok") EXCEPT
           !.json = expects_json,
           !.snapshot = latest.id,
           !.data = data,
           !.flashed = truthy /\ ~expects_json,
           !.token = IF expects_json
                     THEN create_export_token(latest, export_format, export_limit)
                     ELSE NoToken,
           !.limited = expects_json /\ truthy,
           !.total_rows = IF expects_json /\ truthy THEN total_rows ELSE 0,
           !.exported_rows = IF expects_json /\ truthy THEN Len(data) ELSE 0]

\* views.export_snapshot, lines 399-443: every answer it can give once
\* _ensure_instagram_snapshots has returned and the table holds S.
ExportAnswers(S, account_id, type_raw, snapshot_type, export_format, expects_json) ==
    IF latest_snapshot(S, account_id, snapshot_type) = {}
    THEN {Request("export", account_id, type_raw, Response("export", "no_data"))}
    ELSE {Request("export", account_id, type_raw,
                  ExportResponse(latest, export_format, expects_json))
            : latest \in latest_snapshot(S, account_id, snapshot_type)}

\* InstagramService.fetch_profile: the username of the profile found for a
\* name, as Instagram spells it.
fetch_profile_username(username) == Lower(username)

\* The profile_pic_url a fetched profile can carry: none ("") or a URL.
ProfilePictures == {"", "pic"}

\* views._ensure_instagram_snapshots, lines 298-305: the account's fields
\* are set from the profile fetched for its username, the picture only
\* when the profile has one.
ProfileFetched(accts, account, profile_pic_url) ==
    [accts EXCEPT
       ![account].instagram_username = fetch_profile_username(@),
       ![account].instagram_user_id = ProfileUserId(account),
       ![account].profile_picture_url =
           IF profile_pic_url # "" THEN profile_pic_url ELSE @]

\* A plausible slip: the sync skipped only when the service is unavailable.
ensure_skips_unavailable == ~available

\* views._ensure_instagram_snapshots, lines 283-296: it returns False
\* before it has fetched or changed anything.
ensure_skips == ~available \/ ~connected

\* latest.created_at >= freshness_threshold (views.py line 315)
is_fresh(created_at, threshold) == created_at >= threshold

\* A request that has called _ensure_instagram_snapshots and waits for
\* InstagramService.fetch_profile (views.py line 298) to return.  handler is
\* the view that called, types the snapshot types the loop has still to
\* visit, threshold the freshness_threshold, pending the Snapshot rows the
\* session has flushed and not committed, created the ids of the rows the
\* sync has stored, refreshed the variable of that name; type_raw,
\* export_format and expects_json are those of an export.  The fields the
\* profile gives the account are in the session until its first commit,
\* where the profile's picture is drawn; committed tells whether that
\* commit has been made.
Waiting(handler, account, type_raw, types, force, export_format, expects_json) ==
    [pc |-> "fetch_profile", handler |-> handler, account |-> account,
     type_raw |-> type_raw, types |-> types, force |-> force,
     export_format |-> export_format, expects_json |-> expects_json,
     threshold |-> 0, pending |-> {}, created |-> {}, committed |-> FALSE,
     refreshed |-> FALSE]

\* A request for a page as the handler receives it and its response: force
\* is the force argument of the sync, refreshed what the sync returned,
\* raised whether it ended with an InstagramServiceError.
PageRequest(handler, account_id, status, force, out) ==
    [handler |-> handler, account_id |-> account_id, type_raw |-> <<>>,
     force |-> force,
     response |-> [handler |-> handler, status |-> status,
                   refreshed |-> out.refreshed, raised |-> out.raised]]

NoSync == [refreshed |-> FALSE, raised |-> FALSE]

\* What the handler of the waiting request w answers once the sync has
\* returned refreshed or raised an InstagramServiceError and the table
\* holds S: view_account and add_account flash the error and go on
\* (views.py lines 118-131, 150-153), export_snapshot answers 502 (lines
\* 389-397) or exports the latest snapshot.
SyncAnswers(w, S, refreshed, raised) ==
    IF w.handler # "export"
    THEN {PageRequest(w.handler, w.account, "ok", w.force,
                      [refreshed |-> refreshed, raised |-> raised])}
    ELSE IF raised
    THEN {Request("export", w.account, w.type_raw, Response("export", "502"))}
    ELSE ExportAnswers(S, w.account, w.type_raw, Head(w.types),
                       w.export_format, w.expects_json)

\* The loop of views._ensure_instagram_snapshots, lines 313-316, while the
\* session sees the rows S: the types from the first one on that is not
\* passed over, none when the loop has come to its end.
RECURSIVE TypesToFetch(_, _, _, _, _)
TypesToFetch(S, account, types, force, threshold) ==
    IF types = <<>> THEN <<>>
    ELSE IF ~force /\ \E l \in latest_snapshot(S, account, Head(types)) :
                         is_fresh(l.created_at, threshold)
    THEN TypesToFetch(S, account, Tail(types), force, threshold)
    ELSE types

\* A handler calls _ensure_instagram_snapshots, the TrackedAccount rows it
\* has committed being accts.  The call returns False at once (views.py
\* lines 283-296) and the handler answers, or it calls fetch_profile (line
\* 298) and the request waits for Instagram while other requests are
\* handled.
EnsureCall(w, accts) ==
    IF ensure_skips
    THEN /\ \E answer \in SyncAnswers(w, db, FALSE, FALSE) :
              probe' = [probe EXCEPT !.last = answer]
         /\ accounts' = accts
         /\ UNCHANGED <<db, next_id, now, connected, available, req>>
    ELSE \E r \in SyncRequests :
         /\ req[r].pc = "idle"
         /\ req' = [req EXCEPT ![r] = w]
         /\ accounts' = accts
         /\ probe' = [probe EXCEPT !.last = NoRequest]
         /\ UNCHANGED <<db, next_id, now, connected, available>>

\* The sync of request r, which was w, is over: the session is committed
\* (views.py line 330) or, after an error, rolled back at the end of the
\* request, the table holds S and the accounts are accts, and the handler
\* answers.
SyncEnds(r, w, S, accts, id, refreshed, raised) ==
    /\ db' = S
    /\ accounts' = accts
    /\ next_id' = id
    /\ req' = [req EXCEPT ![r] = IdleReq]
    /\ \E answer \in SyncAnswers(w, S, refreshed, raised) :
         probe' = [probe EXCEPT !.last = answer]
    /\ UNCHANGED <<now, connected, available>>

\* views._ensure_instagram_snapshots, lines 298-316: fetch_profile raises,
\* or it returns a profile; then the account's fields are set and flushed,
\* freshness_threshold is taken from the clock and the loop runs up to the
\* first type it has to fetch, where the request waits for
\* fetch_relationships (line 318).
SyncProfile(r) ==
    /\ req[r].pc = "fetch_profile"
    /\ LET w == req[r]
       IN  \/ SyncEnds(r, w, db, accounts, next_id, FALSE, TRUE)
           \/ LET threshold == now - CacheMinutes
                  types == TypesToFetch(db, w.account, w.types, w.force, threshold)
              IN  IF types = <<>>
                  THEN \E pic \in ProfilePictures :
                         SyncEnds(r, w, db, ProfileFetched(accounts, w.account, pic),
                                  next_id, FALSE, FALSE)
                  ELSE /\ req' = [req EXCEPT ![r] =
                                      [w EXCEPT !.pc = "fetch_relationships",
                                                !.types = types,
                                                !.threshold = threshold]]
                         /\ probe' = [probe EXCEPT !.last = NoRequest]
                         /\ UNCHANGED <<db, accounts, next_id, now, connected, available>>

\* views._ensure_instagram_snapshots, lines 318-331, while fewer than room
\* Snapshot rows have been inserted: fetch_relationships raises, or it
\* returns the usernames; then _store_snapshot reads previous_snapshot
\* (line 239) and adds the snapshot to the session, and the loop runs on to
\* the next type it has to fetch or to its end, where the session is
\* committed.
SyncFetched(r, room) ==
    /\ req[r].pc = "fetch_relationships"
    /\ LET w == req[r]
           visible == db \cup w.pending
           entry_type == Head(w.types)
       IN  \/ SyncEnds(r, w, db, accounts, next_id, FALSE, TRUE)
           \/ /\ next_id <= room
              /\ \E raw \in ExportSyncInputs, pic \in ProfilePictures,
                    prev \in PreviousIds(visible, w.account, entry_type) :
                   LET snapshot == StoredSnapshot(visible, next_id, w.account,
                                                  entry_type, now, raw, Len(raw), prev)
                       pending == w.pending \cup {snapshot}
                       types == TypesToFetch(db \cup pending, w.account, Tail(w.types),
                                             w.force, w.threshold)
                   IN  IF types = <<>>
                       THEN SyncEnds(r, [w EXCEPT !.types = <<entry_type>>],
                                     CommitRows(db, pending),
                                     IF w.committed THEN accounts
                                     ELSE ProfileFetched(accounts, w.account, pic),
                                     next_id + 1, TRUE, FALSE)
                       ELSE /\ req' = [req EXCEPT ![r] =
                                         [w EXCEPT !.types = types,
                                                   !.pending = pending,
                                                   !.created = @ \cup {next_id},
                                                   !.refreshed = TRUE]]
                            /\ next_id' = next_id + 1
                            /\ probe' = [probe EXCEPT !.last = NoRequest]
                            /\ UNCHANGED <<db, accounts, now, connected, available>>

\* InstagramService._client_for, lines 192-204, inside fetch_relationships
\* (views.py line 318): the cached client has been dropped by a
\* connect_user or disconnect_user since fetch_profile, Instagram wants a
\* new login, and after it db.session.commit() commits the session of the
\* request: the account's fields and the snapshots of the types the loop
\* has been through.  The request goes on waiting for the usernames.
SyncRelogged(r) ==
    /\ req[r].pc = "fetch_relationships"
    /\ LET w == req[r]
       IN  /\ w.pending # {} \/ ~w.committed
           /\ db' = CommitRows(db, w.pending)
           /\ \E pic \in ProfilePictures :
                accounts' = IF w.committed THEN accounts
                            ELSE ProfileFetched(accounts, w.account, pic)
           /\ req' = [req EXCEPT ![r] = [w EXCEPT !.pending = {},
                                                  !.committed = TRUE]]
    /\ probe' = [probe EXCEPT !.last = NoRequest]
    /\ UNCHANGED <<next_id, now, connected, available>>

\* views.export_snapshot, for requests with these account ids, snapshot
\* types and formats, up to its call of _ensure_instagram_snapshots.
ExportOf(account_ids, types, formats) ==
    \E account_id \in account_ids, type_raw \in types :
        LET account == get_account_or_404(accounts, account_id, CurrentUser)
            snapshot_type == validate_snapshot_type(type_raw)
            Reply(status) == Answer("export", account_id, type_raw,
                                    Response("export", status))
        IN  IF account = NotFound THEN Reply("404")
            ELSE IF snapshot_type = ValidationError THEN Reply("invalid_type")
            ELSE \E format_raw \in formats :
                 LET export_format == validate_export_format(format_raw)
                 IN  IF export_format = ValidationError THEN Reply("invalid_format")
                     ELSE \E expects_json \in BOOLEAN :
                          EnsureCall(Waiting("export", account, type_raw,
                                             <<snapshot_type>>, FALSE, export_format,
                                             expects_json),
                                     accounts)

Export == ExportOf(AccountIds, TypeInputs, FormatInputs)

\* Time passes between two requests once a snapshot is stored, as often as
\* a row can be stored.
TickReq ==
    /\ db # {}
    /\ now < MaxStored
    /\ now' = now + 1
    /\ UNCHANGED <<db, accounts, next_id, connected, available, req, probe>>

\* The uploads, one request at a time.
NextReq ==
    \/ Upload
    \/ TickReq

SpecReq == InitReq /\ [][NextReq]_vars

\* The uploads of one file while exports are requested.  An export that
\* waits for Instagram is answered after the requests that arrive
\* meanwhile, and its sync may store one row more than the uploads, so that
\* it can follow an upload.
UploadExport == UploadOf({F_three}, AccountIds, TypeInputs, MaxStored)

NextExport ==
    \/ UploadExport
    \/ Export
    \/ \E r \in SyncRequests : SyncProfile(r)
    \/ \E r \in SyncRequests : SyncRelogged(r)
    \/ \E r \in SyncRequests : SyncFetched(r, MaxStored + 1)
    \/ TickReq

SpecExport == InitReq /\ [][NextExport]_vars

-----------------------------------------------------------------------------
(* views.py: the account pages and the automatic sync *)

\* views.view_account, for requests with these account ids, up to its call
\* of _ensure_instagram_snapshots.
ViewOf(account_ids) ==
    \E account_id \in account_ids :
        LET account == get_account_or_404(accounts, account_id, CurrentUser)
        IN  IF account = NotFound
            THEN /\ probe' = [probe EXCEPT !.last =
                                PageRequest("view", account_id, "404", FALSE, NoSync)]
                 /\ UNCHANGED <<db, accounts, next_id, now, connected, available, req>>
            ELSE EnsureCall(Waiting("view", account, <<>>, <<W_followers, W_following>>,
                                    FALSE, <<>>, FALSE),
                            accounts)

\* views.add_account (POST), for forms with these usernames, up to its
\* call of _ensure_instagram_snapshots: the new account is committed (line
\* 116) before the sync is called.
AddAccountOf(usernames, max_accounts) ==
    \E raw \in usernames :
        LET username == Strip(raw)
            existing == {i \in DOMAIN accounts :
                           /\ accounts[i].user_id = CurrentUser
                           /\ accounts[i].instagram_username = username}
            Reply(account_id, status) ==
                /\ probe' = [probe EXCEPT !.last =
                               PageRequest("add", account_id, status, TRUE, NoSync)]
                /\ UNCHANGED <<db, accounts, next_id, now, connected, available, req>>
        IN  IF username = <<>> THEN Reply(NotFound, "required")
            ELSE IF existing # {}
            THEN \E account_id \in existing : Reply(account_id, "exists")
            ELSE /\ Len(accounts) < max_accounts
                 /\ EnsureCall(
                       Waiting("add", Len(accounts) + 1, <<>>,
                               <<W_followers, W_following>>, TRUE, <<>>, FALSE),
                       Append(accounts,
                              [user_id |-> CurrentUser, instagram_username |-> username,
                               instagram_user_id |-> "none",
                               profile_picture_url |-> "none"]))

\* views.instagram_settings (POST): connect_user stores an Instagram
\* session for the user, disconnect_user deletes it.
Connect ==
    /\ available
    /\ ~connected
    /\ connected' = TRUE
    /\ probe' = [probe EXCEPT !.last = NoRequest]
    /\ UNCHANGED <<db, accounts, next_id, now, available, req>>

Disconnect ==
    /\ connected
    /\ connected' = FALSE
    /\ probe' = [probe EXCEPT !.last = NoRequest]
    /\ UNCHANGED <<db, accounts, next_id, now, available, req>>

\* The usernames typed into the form of add_account.
AddInputs == {<<>>, <<" ">>, <<"A">>, <<"a">>, <<" ", "a">>}

View == ViewOf(1..(MaxAccounts + 1))
AddAccount == AddAccountOf(AddInputs, MaxAccounts)
UploadPages == UploadOf({F_three}, {1}, {W_followers}, MaxSynced)

\* Time passes between two requests once a snapshot is stored, until a
\* snapshot of the start is stale.
TickPages ==
    /\ db # {}
    /\ now <= CacheMinutes
    /\ now' = now + 1
    /\ probe' = [probe EXCEPT !.last = NoRequest]
    /\ UNCHANGED <<db, accounts, next_id, connected, available, req>>

InitPages ==
    /\ db = {}
    /\ accounts = <<>>
    /\ next_id = 1
    /\ now = 0
    /\ connected = FALSE
    /\ available \in BOOLEAN
    /\ req = [r \in Requests |-> IdleReq]
    /\ probe = [op |-> "page", last |-> NoRequest]

NextPages ==
    \/ AddAccount
    \/ View
    \/ \E r \in SyncRequests : SyncProfile(r)
    \/ \E r \in SyncRequests : SyncRelogged(r)
    \/ \E r \in SyncRequests : SyncFetched(r, MaxSynced)
    \/ UploadPages
    \/ Connect
    \/ Disconnect
    \/ TickPages

SpecPages == InitPages /\ [][NextPages]_vars

\* The page of an account whose snapshots are uploaded one after another,
\* from two files, by a user who is not connected: the sync returns at once
\* (views.py lines 283-296) and the page shows _latest_diff of the stored
\* snapshots.
UploadHistory == UploadOf({F_one, F_three}, {1}, {W_followers}, MaxSynced)

InitHistory ==
    /\ db = {}
    /\ accounts = AccountRows
    /\ next_id = 1
    /\ now = 0
    /\ connected = FALSE
    /\ available \in BOOLEAN
    /\ req = [r \in Requests |-> IdleReq]
    /\ probe = [op |-> "page", last |-> NoRequest]

NextHistory ==
    \/ UploadHistory
    \/ ViewOf(1..Len(AccountRows))
    \/ TickPages

SpecHistory == InitHistory /\ [][NextHistory]_vars

-----------------------------------------------------------------------------
(* views.py: the download of an export *)

\* serializer.loads(token, max_age=300): the age in clock units up to which
\* a token is accepted.
TokenMaxAge == 1

\* paywall.exceeds_free_limit
exceeds_free_limit(count) == count > probe.max_free

\* The users who send a download request.
Users == {CurrentUser, "user2"}

\* A download request as the handler receives it and its response.
DownloadRequest(user, account_id, token, response) ==
    [handler |-> "download", account_id |-> account_id, type_raw |-> <<>>,
     user |-> user, token |-> token, response |-> response]

\* A plausible slip: the latest snapshot of the token's type served in
\* place of the snapshot the token names.
TokenSnapshotsLatest(S, token, account) ==
    latest_snapshot(S, account, token.snapshot_type)

\* Snapshot.query.filter_by(id, tracked_account_id, snapshot_type).first()
\* in export_snapshot_download
TokenSnapshots(S, token, account) ==
    {s \in S : /\ s.id = token.snapshot_id
               /\ s.account = account
               /\ s.type = token.snapshot_type}

\* A plausible slip: the token accepted on every account's download URL.
TokenMismatchIgnored(token, account_id) == FALSE

\* payload.get("account_id") != account_id
TokenMismatch(token, account_id) == token.account_id # account_id

\* views.export_snapshot_download
Download ==
    \E user \in Users, account_id \in AccountIds,
       token \in {NoToken, probe.held.token} :
        LET account == get_account_or_404(accounts, account_id, user)
            Sent(response) ==
                /\ probe' = [probe EXCEPT !.last =
                               DownloadRequest(user, account_id, token, response)]
                /\ UNCHANGED <<db, accounts, next_id, now, connected, available, req>>
        IN  IF token = NoToken THEN Sent(Response("download", "400"))
            ELSE IF now - token.issued_at > TokenMaxAge
            THEN Sent(Response("download", "400"))
            ELSE IF TokenMismatch(token, account_id)
            THEN Sent(Response("download", "403"))
            ELSE IF account = NotFound THEN Sent(Response("download", "404"))
            ELSE IF TokenSnapshots(db, token, account) = {}
            THEN Sent(Response("download", "404"))
            ELSE \E snapshot \in TokenSnapshots(db, token, account) :
                   Sent([Response("download", "ok") EXCEPT
                           !.snapshot = snapshot.id,
                           !.data = snapshot_entries(snapshot, token.limit),
                           !.flashed = /\ token.limit # NoLimit /\ token.limit # 0
                                       /\ exceeds_free_limit(Len(snapshot.entries))
                                       /\ ~probe.is_subscribed])

\* The client keeps the JSON response of the AJAX export it has just made,
\* with the download URL in it.
HoldToken ==
    /\ probe.last.handler = "export"
    /\ probe.last.response.token # NoToken
    /\ probe.held # probe.last.response
    /\ probe' = [probe EXCEPT !.held = probe.last.response, !.last = NoRequest]
    /\ UNCHANGED <<db, accounts, next_id, now, connected, available, req>>

\* User.is_subscribed is set or cleared between two requests.
SetSubscribed ==
    /\ probe' = [probe EXCEPT !.is_subscribed = ~@, !.last = NoRequest]
    /\ UNCHANGED <<db, accounts, next_id, now, connected, available, req>>

\* Time passes between two requests, until a token issued at the start is
\* too old.
TickDl ==
    /\ now <= TokenMaxAge
    /\ now' = now + 1
    /\ probe' = [probe EXCEPT !.last = NoRequest]
    /\ UNCHANGED <<db, accounts, next_id, connected, available, req>>

\* The uploads and exports of the owner and of requests for another user's
\* account, for the followers list.
UploadDl == UploadOf({F_three}, 1..Len(AccountRows), {W_followers}, MaxExported)
ExportDl == ExportOf(1..Len(AccountRows), {W_followers}, {W_csv})
ViewDl == ViewOf(1..Len(AccountRows))

InitDl ==
    /\ db = {}
    /\ accounts = AccountRows
    /\ next_id = 1
    /\ now = 0
    /\ connected \in BOOLEAN
    /\ available \in BOOLEAN
    /\ ~(connected /\ available)
    /\ req = [r \in Requests |-> IdleReq]
    /\ \E max_free \in 0..MaxFreeExport, is_subscribed \in BOOLEAN :
         probe = [op |-> "download", max_free |-> max_free,
                  is_subscribed |-> is_subscribed,
                  last |-> NoRequest,
                  held |-> Response("none", "none")]

NextDl ==
    \/ UploadDl
    \/ ExportDl
    \/ ViewDl
    \/ Download
    \/ HoldToken
    \/ SetSubscribed
    \/ TickDl

SpecDl == InitDl /\ [][NextDl]_vars

-----------------------------------------------------------------------------
(* Properties *)

\* The snapshots of the key of s that are committed.
SameKey(s) == OfKey(db, s.account, s.type)

\* A list in strictly ascending order: sorted and free of duplicates.
StrictlySorted(q) == \A i \in 1..(Len(q) - 1) : StrLess(q[i], q[i + 1])

NoDuplicates(q) == \A i, j \in 1..Len(q) : i # j => q[i] # q[j]

Ids(S) == {s.id : s \in S}

\* C1: when a snapshot N is ingested while a prior snapshot P of the same
\* account and type is stored, the diff _store_snapshot returns has as added
\* exactly the identities of N that are not in P, and as removed exactly the
\* identities of P that are not in N.
C1_IngestDiffIsSetDifference ==
    \A s \in db :
        s.prev # NoSnapshot =>
            LET P == ById(db, s.prev) IN
            /\ Range(s.diff.added) = Range(s.entries) \ Range(P.entries)
            /\ Range(s.diff.removed) = Range(P.entries) \ Range(s.entries)

\* C2: a snapshot ingested when no prior snapshot of its account and type
\* exists gets a diff that lists every one of its identities as added and
\* nothing as removed, and while it is the only snapshot of its type
\* _latest_diff reports the same.
C2_FirstSnapshotAllAdded ==
    /\ \A s \in db :
          s.prev = NoSnapshot =>
              /\ Range(s.diff.added) = Range(s.entries)
              /\ Len(s.diff.added) = Len(s.entries)
              /\ s.diff.removed = <<>>
    /\ \A s \in db :
          SameKey(s) = {s} =>
              /\ s.prev = NoSnapshot
              /\ latest_diff(db, s.account, s.type) # {}
              /\ \A d \in latest_diff(db, s.account, s.type) :
                    /\ Range(d.added) = Range(s.entries)
                    /\ Len(d.added) = Len(s.entries)
                    /\ d.removed = <<>>

\* C2 witness: a committed first snapshot with identities, alone in its type.
C2_Witness ==
    \E s \in db :
        /\ SameKey(s) = {s}
        /\ s.prev = NoSnapshot
        /\ Len(s.entries) >= 2

\* C3: the added and removed lists of every diff, the one returned at ingest
\* and the one _latest_diff returns, are in ascending order without
\* duplicates, also when there is no prior snapshot.
C3_DiffListsSortedUnique ==
    /\ \A s \in db :
          StrictlySorted(s.diff.added) /\ StrictlySorted(s.diff.removed)
    /\ \A a \in Accounts, t \in SnapshotTypes :
          \A d \in latest_diff(db, a, t) :
              StrictlySorted(d.added) /\ StrictlySorted(d.removed)

\* C4: the result of compute_diff does not change when an element of either
\* input changes its letter case or its leading or trailing whitespace.
C4_DiffIgnoresCaseAndWhitespace ==
    (probe.op = "diff" /\ probe.n = 3) => probe.second = probe.first

\* C5: normalize_username and _normalize_username are idempotent: applied to
\* their own result they return it unchanged.
C5_NormalizeIdempotent ==
    (probe.op = "normalize" /\ probe.n = 2) => probe.z = probe.y

\* y is x without its surrounding whitespace, then without leading '@' (one
\* of them at most when one is TRUE, all of them otherwise), in lower case.
TrimmedAtLowered(x, y, one) ==
    \E lead \in 0..Len(x) : \E trail \in 0..(Len(x) - lead) :
        LET t == SubSeq(x, lead + 1, Len(x) - trail) IN
        /\ \A i \in 1..lead : IsSpace(x[i])
        /\ \A i \in (Len(x) - trail + 1)..Len(x) : IsSpace(x[i])
        /\ t # <<>> => (~IsSpace(t[1]) /\ ~IsSpace(t[Len(t)]))
        /\ \E k \in 0..Len(t) :
              /\ \A i \in 1..k : t[i] = "@"
              /\ IF one THEN k = (IF t # <<>> /\ t[1] = "@" THEN 1 ELSE 0)
                        ELSE k < Len(t) => t[k + 1] # "@"
              /\ Len(y) = Len(t) - k
              /\ \A i \in 1..Len(y) : y[i] = LowerChar(t[k + i])

\* C6 as stated: normalize_username trims surrounding whitespace, removes
\* exactly one leading '@' and lowercases, so an input with two leading '@'
\* keeps one of them.
C6_StripsExactlyOneAt ==
    (probe.op = "normalize" /\ probe.fn = "normalize_username" /\ probe.n >= 1)
        => TrimmedAtLowered(probe.x, probe.y, TRUE)

\* C6 amended: normalize_username trims surrounding whitespace, removes every
\* leading '@' and lowercases.
C6_StripsEveryLeadingAt ==
    (probe.op = "normalize" /\ probe.fn = "normalize_username" /\ probe.n >= 1)
        => TrimmedAtLowered(probe.x, probe.y, FALSE)

\* C6 witness: an input with two leading '@' is normalized to its letters.
C6_Witness ==
    /\ probe.op = "normalize" /\ probe.fn = "normalize_username" /\ probe.n >= 1
    /\ probe.x = <<"@", "@", "A">>
    /\ probe.y = <<"a">>

\* C7: no persisted snapshot holds two entries with the same username.
C7_SnapshotIdentitiesUnique == \A s \in db : NoDuplicates(s.entries)

\* C7 witness: a persisted snapshot whose input repeated an identity.
C7_Witness ==
    \E s \in db : s.rows > Len(s.entries) /\ Len(s.entries) >= 2

\* C8: within one account and type every snapshot's created_at is strictly
\* greater than that of every snapshot created before it, and
\* latest_snapshot returns the snapshot created last.
C8_CreatedAtStrictlyIncreasing ==
    \A s \in db :
        /\ \A o \in SameKey(s) : o.id < s.id => o.created_at < s.created_at
        /\ \A l \in latest_snapshot(db, s.account, s.type) :
              \A o \in SameKey(s) : o.id <= l.id

\* The snapshots of one key carry different timestamps.
DistinctTimes(S) == \A s1, s2 \in S : s1 # s2 => s1.created_at # s2.created_at

\* C9: ingests for the same account and type are serialized: the diff of
\* each snapshot is computed against the snapshot immediately before it.
C9_DiffAgainstImmediatePredecessor ==
    \A s \in db :
        DistinctTimes(SameKey(s)) =>
            LET older == {o \in SameKey(s) : o.created_at < s.created_at} IN
            IF older = {} THEN s.prev = NoSnapshot
            ELSE /\ s.prev \in Ids(older)
                 /\ \A o \in older : o.created_at <= ById(db, s.prev).created_at

\* C10: no partial snapshot is persisted: whatever an ingest does, and
\* also when it fails part-way, every snapshot in the committed store has
\* all the entries its ingest was to give it.
C10_NoPartialSnapshotPersisted == \A s \in db : s.entries = s.intended

\* C10 witness: an ingest has failed after it had added a snapshot to its
\* session, and none of its rows is in the committed store.
C10_Witness ==
    \E r \in Requests :
        /\ req[r].pc = "failed"
        /\ req[r].created # {}
        /\ req[r].created \cap Ids(db) = {}

-----------------------------------------------------------------------------
(* The parser *)

\* parse_snapshot_file has been called with the file of the probe.
Parsed == probe.op = "parse" /\ probe.n >= 1

\* C12: parse_snapshot_file never raises: for every file content and
\* filename (an empty file, whitespace only, malformed JSON, JSON entries of
\* an unexpected shape, no recognizable extension) it returns a list.
C12_ParseNeverRaises == Parsed => ~probe.result.raises

\* What the chain is to return: the pairs of the JSON strategy where the
\* content looks like JSON and gives a pair, else those of the delimited
\* strategy where the content looks delimited and gives a pair, else those
\* of the plain list.
ChainExpected(filename, stripped) ==
    LET Expected(strategy, rows) == [strategy |-> strategy, rows |-> rows]
        Delimited(csv) ==
            IF csv # <<>> THEN Expected("csv", csv)
            ELSE Expected("plain", parse_plain_list(stripped))
        Json(json) ==
            IF ~json.raises /\ json.rows # <<>> THEN Expected("json", json.rows)
            ELSE Delimited(IF stripped # <<>> /\ looks_like_csv(filename, stripped)
                           THEN parse_csv_export(stripped) ELSE <<>>)
    IN  Json(IF looks_like_json(filename, stripped)
             THEN parse_json_export(stripped)
             ELSE [rows |-> <<>>, raises |-> FALSE])

\* C13: format detection is an ordered fallback chain, with or without a
\* recognizable extension: the pairs are those of the JSON strategy where
\* it applies and yields a pair, else those of the delimited strategy where
\* it applies and yields a pair, else those of the plain list; a later
\* strategy is never used after an earlier one has yielded a pair.
C13_OrderedFallbackChain ==
    (Parsed /\ probe.text # <<>>) =>
        LET Agrees(expected) ==
                /\ ~probe.result.raises
                /\ probe.result.strategy = expected.strategy
                /\ probe.result.raw = expected.rows
        IN  Agrees(ChainExpected(Lower(probe.filename), Strip(probe.text)))

\* The identity of a pair the chain has produced.
RawIdentity(pair) ==
    IF pair.username = None THEN <<>> ELSE normalize_username(pair.username)

\* The positions of the pairs that are the first of their identity.
FirstOccurrences(raw) ==
    {i \in 1..Len(raw) :
        /\ RawIdentity(raw[i]) # <<>>
        /\ \A j \in 1..(i - 1) : RawIdentity(raw[j]) # RawIdentity(raw[i])}

\* C14: the rows parse_snapshot_file returns are unique by normalized
\* identity and in first-seen order: of the pairs of one identity only the
\* first is kept, with its own display name, also where a later one has a
\* fuller name, and a pair whose identity is empty is dropped.
C14_RowsUniqueFirstSeen ==
    (Parsed /\ ~probe.result.raises) =>
        LET raw == probe.result.raw
            rows == probe.result.rows
            firsts == FirstOccurrences(raw)
        IN  /\ Len(rows) = Cardinality(firsts)
            /\ \A i \in firsts :
                   LET k == Cardinality({j \in firsts : j <= i})
                   IN  rows[k] = Pair(RawIdentity(raw[i]), CleanName(raw[i].full_name))

\* C14 witness: a file has been parsed in which a later pair repeats the
\* identity of an earlier one and has a display name where the earlier one
\* has none, and in which a pair has no identity; one row is returned.
C14_Witness ==
    /\ Parsed /\ ~probe.result.raises
    /\ Len(probe.result.rows) = 1
    /\ \E i, j, k \in 1..Len(probe.result.raw) :
           LET raw == probe.result.raw
           IN  /\ i < j
               /\ RawIdentity(raw[i]) = RawIdentity(raw[j])
               /\ RawIdentity(raw[i]) # <<>>
               /\ raw[i].full_name = None
               /\ Truthy(raw[j].full_name)
               /\ RawIdentity(raw[k]) = <<>>

\* C15: in delimited content with a header row the aliases of the username
\* column and of the display-name column are matched without regard to
\* case: a table parses to the rows it parses to under the same header in
\* lower case, where the first alias with a non-empty value wins.
C15_HeaderAliasesIgnoreCase ==
    (probe.op = "parse" /\ probe.n = 2) =>
        /\ probe.result.raises = probe.lowered.raises
        /\ probe.result.rows = probe.lowered.rows

\* C16: in the rows parse_snapshot_file returns, a row whose display-name
\* field is missing, empty or blank has the display name None, never the
\* empty string, and any other row has its display name trimmed.
C16_BlankDisplayNameIsNone ==
    (Parsed /\ ~probe.result.raises) =>
        LET raw == probe.result.raw
            rows == probe.result.rows
            firsts == FirstOccurrences(raw)
        IN  \A i \in firsts :
                LET k == Cardinality({j \in firsts : j <= i})
                    name == raw[i].full_name
                IN  rows[k].full_name =
                        IF name = None \/ Strip(name) = <<>> THEN None ELSE Strip(name)

\* C17: no empty identity enters the system: no row parse_snapshot_file
\* returns has the empty username, and no element of the added or removed
\* list of a diff is the empty string, also where an element of the input
\* is whitespace only.
C17_NoEmptyIdentity ==
    /\ (Parsed /\ ~probe.result.raises) =>
           \A k \in 1..Len(probe.result.rows) : probe.result.rows[k].username # <<>>
    /\ (probe.op = "diff" /\ probe.n >= 1) =>
           <<>> \notin Range(probe.first.added) \cup Range(probe.first.removed)
    /\ (probe.op = "diff" /\ probe.n = 3) =>
           <<>> \notin Range(probe.second.added) \cup Range(probe.second.removed)

-----------------------------------------------------------------------------
(* The snapshot store *)

\* C11: a persisted snapshot is immutable.  No step of an upload, of an
\* automatic sync (as run by an account view or an export) or of any other
\* request changes the entries, the type, the account or the created_at of
\* a persisted snapshot or removes it, and what a step persists is a new
\* snapshot under a new id.
C11_PersistedSnapshotImmutable ==
    [][/\ \A s \in db : \E n \in db' :
             /\ n.id = s.id
             /\ n.entries = s.entries
             /\ n.type = s.type
             /\ n.account = s.account
             /\ n.created_at = s.created_at
       /\ \A n \in db' \ db : n.id \notin Ids(db)]_vars

\* C11 witness: new data for an account and type that has a persisted
\* snapshot has been stored: both snapshots are persisted, the earlier one
\* with entries the later one does not have.
C11_Witness ==
    \E s \in db, n \in db :
        /\ SameKey(s) = SameKey(n)
        /\ s.id < n.id
        /\ s.created_at < n.created_at
        /\ Range(s.entries) \ Range(n.entries) # {}

-----------------------------------------------------------------------------
(* The handlers *)

\* A step that handles a request, with the request and its response.
Handled == now' = now
Owned(account_id) ==
    account_id \in DOMAIN accounts /\ accounts[account_id].user_id = CurrentUser

\* C18: a snapshot type is accepted exactly when it equals followers or
\* following once trimmed and put in lower case, and the value used is
\* that normalized one; an upload or an export with any other type is
\* answered with the validation error, creates no snapshot and leaves the
\* stored state as it is.
C18_InvalidTypeChangesNothing ==
    [][Handled =>
         LET r == probe'.last
             normalized == Lower(Strip(r.type_raw))
             valid == normalized \in {W_followers, W_following}
         IN  (r.handler \in {"upload", "export"} /\ Owned(r.account_id)) =>
                 /\ (r.response.status = "invalid_type") <=> ~valid
                 /\ ~valid => UNCHANGED <<db, accounts, next_id>>
                 /\ \A s \in db' \ db : s.type = normalized]_vars

\* C18 witness: with a snapshot in the store, a request for the user's own
\* account whose snapshot type is none of the two has been answered with
\* the validation error.
C18_Witness ==
    /\ db # {}
    /\ probe.last.handler \in {"upload", "export"}
    /\ Owned(probe.last.account_id)
    /\ Lower(Strip(probe.last.type_raw)) \notin {W_followers, W_following}
    /\ probe.last.response.status = "invalid_type"

\* C19: an upload addressed to an account id that no account has, or that
\* belongs to another user, is answered with 404 and nothing is stored,
\* and no snapshot ever belongs to an account that does not exist.
C19_UploadToUnknownAccountIs404 ==
    /\ [](\A s \in db : s.account \in DOMAIN accounts)
    /\ [][Handled =>
            LET r == probe'.last
            IN  (r.handler = "upload" /\ ~Owned(r.account_id)) =>
                    /\ r.response.status = "404"
                    /\ UNCHANGED <<db, accounts, next_id>>]_vars

\* C19 witness: with a snapshot in the store, an upload to an account id
\* that no account has has been answered with 404.
C19_Witness ==
    /\ db # {}
    /\ probe.last.handler = "upload"
    /\ probe.last.account_id \notin DOMAIN accounts
    /\ probe.last.response.status = "404"

\* C20: the export of a user who is not subscribed, for a snapshot of more
\* than MAX_FREE_EXPORT entries, is made of the first MAX_FREE_EXPORT rows
\* in ascending username order, and its JSON response has limited = true,
\* exported_rows = MAX_FREE_EXPORT and total_rows; any other export is
\* made of all the rows and reports no limit.
C20_ExportCappedForFreeUsers ==
    (probe.op = "request" /\ probe.last.handler = "export"
                          /\ probe.last.response.status = "ok") =>
        LET response == probe.last.response
            snapshot == ById(db, response.snapshot)
            total_rows == Len(snapshot.entries)
            ascending == Sorted(Range(snapshot.entries))
        IN  IF ~probe.is_subscribed /\ total_rows > probe.max_free
            THEN /\ response.data = SubSeq(ascending, 1, probe.max_free)
                 /\ response.json =>
                        /\ response.limited
                        /\ response.exported_rows = probe.max_free
                        /\ response.total_rows = total_rows
            ELSE /\ response.data = ascending
                 /\ ~response.limited
                 /\ ~response.flashed

-----------------------------------------------------------------------------
(* The account page *)

\* The snapshots of account a and type t created strictly before l, and
\* those of them with the greatest created_at.
Before(l) == {p \in SameKey(l) : p.created_at < l.created_at}
PreviousTo(l) == {p \in Before(l) : \A o \in Before(l) : o.created_at <= p.created_at}

\* C22: for the latest snapshot L of an account and type, _latest_diff
\* returns the diff of L against the snapshot of the same account and type
\* with the greatest created_at strictly less than L's, and the diff with
\* every entry of L added and none removed only when there is no such
\* snapshot; it returns nothing exactly when the type has no snapshot.
C22_LatestDiffAgainstPrevious ==
    \A a \in DOMAIN accounts, t \in {W_followers, W_following} :
        /\ (latest_diff(db, a, t) = {}) <=> (OfKey(db, a, t) = {})
        /\ \A d \in latest_diff(db, a, t) :
              \E L \in latest_snapshot(db, a, t) :
                  IF PreviousTo(L) = {}
                  THEN d = [added |-> L.entries, removed |-> <<>>]
                  ELSE \E p \in PreviousTo(L) :
                         /\ Range(d.added) = DiffSet(L.entries) \ DiffSet(p.entries)
                         /\ Range(d.removed) = DiffSet(p.entries) \ DiffSet(L.entries)
                         /\ StrictlySorted(d.added) /\ StrictlySorted(d.removed)

\* C22 witness: the latest snapshot of a type has two earlier snapshots
\* of different created_at and different entries, the later of them holds
\* an identity the latest one has lost, and _latest_diff reports that loss.
C22_Witness ==
    \E L \in db :
        /\ latest_snapshot(db, L.account, L.type) = {L}
        /\ Cardinality(PreviousTo(L)) = 1
        /\ \E p \in PreviousTo(L), o \in Before(L) :
              /\ o.created_at < p.created_at
              /\ DiffSet(o.entries) # DiffSet(p.entries)
              /\ DiffSet(p.entries) \ DiffSet(L.entries) # {}
        /\ \A d \in latest_diff(db, L.account, L.type) : d.removed # <<>>

\* C23: the diff the account page shows for the latest snapshot of a type
\* has the same added and removed sets as the diff _store_snapshot returned
\* when that snapshot was ingested, also when two snapshots have received
\* equal created_at values.
C23_PageDiffIsIngestDiff ==
    \A a \in Accounts, t \in SnapshotTypes :
        \A d \in latest_diff(db, a, t) :
            \E L \in latest_snapshot(db, a, t) :
                /\ Range(d.added) = Range(L.diff.added)
                /\ Range(d.removed) = Range(L.diff.removed)

\* C24: upload_snapshot persists a new snapshot only when the uploaded file
\* parses to at least one row, and every snapshot it persists holds at least
\* one entry; an upload answered with the warning that no rows were found
\* leaves the store as it is.
C24_UploadPersistsOnlyRows ==
    [][(Handled /\ probe'.last.handler = "upload") =>
         /\ \A s \in db' \ db : s.rows >= 1 /\ s.entries # <<>>
         /\ probe'.last.response.status = "no_rows" =>
                UNCHANGED <<db, accounts, next_id>>]_vars

-----------------------------------------------------------------------------
(* The export downloads *)

\* A step in which a request is answered: r is the request with its response.
Answered(r) == probe'.last = r /\ r.handler # "none"

\* A download that presented a token the serializer accepts.
TokenAccepted(r) ==
    /\ r.handler = "download"
    /\ r.token # NoToken
    /\ now - r.token.issued_at <= TokenMaxAge

\* C21: the download URL of an AJAX export serves the snapshot that was the
\* latest of the requested type when the export was answered, with the
\* export's row limit: the number of rows downloaded is the exported_rows
\* the export reported, or the size of the snapshot when it reported no
\* limit, whatever has been stored since.
C21_DownloadServesExportedSnapshot ==
    [][\A r \in {probe'.last} :
         /\ (Answered(r) /\ r.handler = "export" /\ r.response.status = "ok") =>
                /\ \E l \in latest_snapshot(db', r.account_id, Lower(Strip(r.type_raw))) :
                      l.id = r.response.snapshot
                /\ r.response.json => r.response.token.snapshot_id = r.response.snapshot
         /\ (Answered(r) /\ r.handler = "download" /\ r.response.status = "ok") =>
                /\ r.response.snapshot = probe.held.snapshot
                /\ Len(r.response.data) =
                      IF probe.held.limited THEN probe.held.exported_rows
                      ELSE Len(ById(db, probe.held.snapshot).entries)]_vars

\* C25: snapshot data is served to the owner only.  An upload, a view, an
\* export or a download succeeds only for an account of its user; a
\* token issued for one account is refused with 403 on the download URL of
\* any other account and with 404 when a user who does not own the account
\* presents it; and the snapshot a download serves is the one of the
\* account and type the token names.
C25_DataConfinedToOwner ==
    [][\A r \in {probe'.last} : Answered(r) =>
         /\ (r.handler \in {"upload", "view", "export"}
               /\ r.response.status \in {"stored", "ok"})
                => Owned(r.account_id)
         /\ (r.handler = "download" /\ r.response.status = "ok") =>
                /\ accounts[r.account_id].user_id = r.user
                /\ r.token.account_id = r.account_id
                /\ \E s \in db : /\ s.id = r.response.snapshot
                                  /\ s.account = r.token.account_id
                                  /\ s.type = r.token.snapshot_type
                                  /\ Range(r.response.data) \subseteq Range(s.entries)
         /\ (TokenAccepted(r) /\ r.token.account_id # r.account_id)
                => r.response.status = "403"
         /\ (TokenAccepted(r) /\ r.token.account_id = r.account_id
                              /\ accounts[r.account_id].user_id # r.user)
                => r.response.status = "404"]_vars

\* C25 witness: with a snapshot stored, a user who does not own the account
\* has presented a token issued for it on its download URL and got 404.
C25_Witness ==
    /\ db # {}
    /\ TokenAccepted(probe.last)
    /\ probe.last.token.account_id = probe.last.account_id
    /\ probe.last.user # CurrentUser
    /\ probe.last.response.status = "404"

\* C26: a user who is not subscribed when a download is answered receives
\* at most MAX_FREE_EXPORT rows, whatever exports, subscription changes and
\* downloads came before.
C26_FreeDownloadCapped ==
    [][\A r \in {probe'.last} :
         (Answered(r) /\ r.handler = "download" /\ r.response.status = "ok"
                      /\ ~probe.is_subscribed) =>
             Len(r.response.data) <= probe.max_free]_vars

-----------------------------------------------------------------------------
(* The automatic sync *)

\* The snapshots of account a and type t that are the latest by created_at
\* and were created within the last INSTAGRAM_CACHE_MINUTES minutes.
FreshLatest(a, t) ==
    {l \in OfKey(db, a, t) :
        /\ \A s \in OfKey(db, a, t) : s.created_at <= l.created_at
        /\ now - l.created_at <= CacheMinutes}

\* The snapshots the sync of request r has created when it ends: those a
\* commit in between has stored and those its last commit stores.
Created(r) == {s \in db' : s.id \in req[r].created} \cup (db' \ db)

\* A step in which the sync of request r stores a snapshot.
Stores(r) ==
    /\ req[r].pc = "fetch_relationships"
    /\ req'[r] # req[r]
    /\ next_id' # next_id

\* A step in which the sync of a page request ends and the page is answered.
SyncAnswered(r, q) ==
    /\ req[r].pc \in {"fetch_profile", "fetch_relationships"}
    /\ req'[r].pc = "idle"
    /\ Answered(q)
    /\ q.handler \in {"view", "add"}
    /\ ~q.response.raised

\* C27: a sync that is not forced stores no snapshot of a type whose latest
\* snapshot was created within the last INSTAGRAM_CACHE_MINUTES minutes; a
\* sync that runs to its end creates at most one snapshot of a requested
\* type, one of every requested type when it is forced, and none for
\* another account, and it returns true exactly when it has created a
\* snapshot.
C27_SyncRespectsFreshness ==
    [][\A r \in SyncRequests :
         /\ (Stores(r) /\ ~req[r].force) =>
                FreshLatest(req[r].account, Head(req[r].types)) = {}
         /\ \A q \in {probe'.last} : SyncAnswered(r, q) =>
                /\ \A t \in {W_followers, W_following} :
                      /\ Cardinality(OfKey(Created(r), q.account_id, t)) <= 1
                      /\ q.force =>
                            Cardinality(OfKey(Created(r), q.account_id, t)) = 1
                /\ db \subseteq db'
                /\ \A s \in Created(r) : s.account = q.account_id
                /\ q.response.refreshed <=> (Created(r) # {})]_vars

-----------------------------------------------------------------------------
(* The tracked accounts *)

\* C30: a user has at most one tracked account per instagram_username.
C30_OneAccountPerUsername ==
    \A i, j \in DOMAIN accounts :
        (/\ accounts[i].user_id = accounts[j].user_id
         /\ accounts[i].instagram_username = accounts[j].instagram_username)
            => i = j

-----------------------------------------------------------------------------
(* The sync without Instagram *)

\* C28: while the Instagram service is unavailable or the user is not
\* connected, viewing or exporting an account creates no snapshot and leaves
\* every tracked account as it was, the sync returning false without an
\* error and without a call of Instagram.
C28_SkippedSyncChangesNothing ==
    [][/\ \A r \in {probe'.last} :
           (Answered(r) /\ r.handler \in {"view", "export"}
              /\ (~available \/ ~connected)) =>
               /\ UNCHANGED <<db, accounts, next_id>>
               /\ (r.handler = "view" /\ r.response.status = "ok")
                      => ~r.response.refreshed /\ ~r.response.raised
               /\ r.handler = "export" => r.response.status # "502"
       /\ \A s \in SyncRequests :
           (~available \/ ~connected) =>
               ~(req[s].pc = "idle" /\ req'[s].pc = "fetch_profile")]_vars

\* C28 witness: the page of an account with a stored snapshot has been
\* viewed while the service was available and the user not connected, and
\* the account still has no Instagram user id.
C28_Witness ==
    /\ available /\ ~connected
    /\ probe.last.handler = "view"
    /\ probe.last.response.status = "ok"
    /\ OfKey(db, probe.last.account_id, W_followers) # {}
    /\ accounts[probe.last.account_id].instagram_user_id = "none"

-----------------------------------------------------------------------------------------------------------------------------------------------------
(* instagram.py: the client cache of the InstagramService *)

\* The service is one object of the module (instagram.py line 274), so its
\* _client_cache is shared by every request thread of the process.  Below,
\* probe.session is the committed InstagramSession row of the user: its
\* primary key, and the connect_user calls, numbered in the order of their
\* commits, that wrote its credentials and its settings_json.  probe.cache
\* is the entry of _client_cache for the user, a client being named by the
\* login its settings stem from; probe.floor is the oldest login a client
\* may stem from after the connect_user and disconnect_user calls that
\* have completed; probe.returned is the client _client_for returned last,
\* with the floor then.
NoSession == 0
NoClient == 0

SessionRow(row, cred, settings) == [row |-> row, cred |-> cred, settings |-> settings]
NoRow == SessionRow(NoSession, NoSession, NoSession)

\* A request thread: where it is, the InstagramSession its ORM session has
\* loaded for user.instagram_session, whether a commit has expired that
\* object since, and the client or login it works with.
IgThread(pc, session, expired, client) ==
    [pc |-> pc, session |-> session, expired |-> expired, client |-> client]
IgIdle == IgThread("idle", NoRow, FALSE, NoClient)

IgMax(a, b) == IF a >= b THEN a ELSE b

\* The threads that have read the session for connect_user and not committed.
Connecting == {r \in Requests : req[r].pc = "connect_commit"}

\* is_connected (instagram.py lines 88-89), which every caller of
\* fetch_profile and fetch_relationships evaluates first (views.py lines
\* 214, 291; instagram.py line 167): user.instagram_session is loaded, and
\* the request goes on to fetch when there is one.
IsConnected(r) ==
    /\ req[r].pc = "idle"
    /\ available
    /\ probe.session # NoRow
    /\ req' = [req EXCEPT ![r] = IgThread("client_cache", probe.session, FALSE, NoClient)]
    /\ UNCHANGED <<db, accounts, next_id, now, connected, available, probe>>

\* The request after a _client_for call has returned: it calls again (the
\* next fetch of the same request) or ends.
AfterReturn(r) == {[req[r] EXCEPT !.pc = "client_cache", !.client = NoClient], IgIdle}

\* _client_for, lines 176-180: the cache is read; a hit is returned.
ClientForCacheRead(r) ==
    /\ req[r].pc = "client_cache"
    /\ IF probe.cache # NoClient
       THEN /\ probe' = [probe EXCEPT !.returned =
                           [client |-> probe.cache, floor |-> probe.floor]]
            /\ \E next \in AfterReturn(r) : req' = [req EXCEPT ![r] = next]
       ELSE /\ req' = [req EXCEPT ![r].pc = "client_session"]
            /\ probe' = probe
    /\ UNCHANGED <<db, accounts, next_id, now, connected, available>>

\* _client_for, lines 182-190: user.instagram_session is the object the
\* request has loaded, read anew only after a commit of the request; without
\* a session the call raises, otherwise a client is built from its settings.
ClientForSessionRead(r) ==
    /\ req[r].pc = "client_session"
    /\ LET session == IF req[r].expired THEN probe.session ELSE req[r].session
       IN  req' = [req EXCEPT ![r] =
                     IF session = NoRow THEN IgIdle
                     ELSE IgThread("client_validate", session, FALSE, session.settings)]
    /\ UNCHANGED <<db, accounts, next_id, now, connected, available, probe>>

\* _client_for, lines 192-206: the client is tried.  It works, or the
\* failure is only logged; or Instagram wants a login and the stored
\* password cannot be read or the login fails, and the call raises; or the
\* login with the loaded credentials succeeds and the new settings are
\* committed to the loaded row, which raises when the row is gone.
ClientForValidate(r) ==
    /\ req[r].pc = "client_validate"
    /\ \/ /\ req' = [req EXCEPT ![r].pc = "client_store"]
          /\ probe' = probe
       \/ /\ req' = [req EXCEPT ![r] = IgIdle]
          /\ probe' = probe
       \/ IF probe.session.row = req[r].session.row
          THEN /\ probe' = [probe EXCEPT !.session.settings = req[r].session.cred]
               /\ req' = [req EXCEPT ![r].pc = "client_store",
                                     ![r].expired = TRUE,
                                     ![r].client = req[r].session.cred]
          ELSE /\ req' = [req EXCEPT ![r] = IgIdle]
               /\ probe' = probe
    /\ UNCHANGED <<db, accounts, next_id, now, connected, available>>

\* _client_for, lines 208-209: the client is put into the cache and returned.
ClientForCacheWrite(r) ==
    /\ req[r].pc = "client_store"
    /\ probe' = [probe EXCEPT !.cache = req[r].client,
                              !.returned = [client |-> req[r].client,
                                            floor |-> probe.floor]]
    /\ \E next \in AfterReturn(r) : req' = [req EXCEPT ![r] = next]
    /\ UNCHANGED <<db, accounts, next_id, now, connected, available>>

\* connect_user, lines 92-112: after the login, user.instagram_session is
\* read.
ConnectRead(r) ==
    /\ req[r].pc = "idle"
    /\ available
    /\ probe.stored + Cardinality(Connecting) < MaxSessions
    /\ req' = [req EXCEPT ![r] = IgThread("connect_commit", probe.session, FALSE, NoClient)]
    /\ UNCHANGED <<db, accounts, next_id, now, connected, available, probe>>

\* connect_user, lines 112-118: the row read is updated, or a new row is
\* inserted when there was none, and committed.  The commit raises when the
\* row read has been deleted, or when another row of the user (user_id is
\* unique) has been inserted since.  The key of an inserted row is the
\* greatest key of the table plus one (models.py line 80, on SQLite,
\* config.py lines 8-11): the key of the row deleted last, unless a row of
\* another user has taken it since.
ConnectCommit(r) ==
    /\ req[r].pc = "connect_commit"
    /\ \E key \in 1..(probe.rows + 1) :
       LET login == probe.stored + 1
           row == IF req[r].session = NoRow THEN key ELSE req[r].session.row
           commits == IF req[r].session = NoRow THEN probe.session = NoRow
                      ELSE probe.session.row = req[r].session.row
       IN  IF commits
           THEN /\ probe' = [probe EXCEPT !.stored = login,
                                          !.rows = IgMax(@, row),
                                          !.session = SessionRow(row, login, login)]
                /\ connected' = TRUE
                /\ req' = [req EXCEPT ![r] =
                             IgThread("connect_pop", NoRow, FALSE, login)]
           ELSE /\ req' = [req EXCEPT ![r] = IgIdle]
                /\ UNCHANGED <<probe, connected>>
    /\ UNCHANGED <<db, accounts, next_id, now, available>>

\* connect_user, line 120: the user's cache entry is dropped.
ConnectPop(r) ==
    /\ req[r].pc = "connect_pop"
    /\ probe' = [probe EXCEPT !.cache = NoClient,
                              !.floor = IgMax(@, req[r].client)]
    /\ req' = [req EXCEPT ![r] = IgIdle]
    /\ UNCHANGED <<db, accounts, next_id, now, connected, available>>

\* disconnect_user, lines 123-124: user.instagram_session is read; without
\* one the call returns at once.
DisconnectRead(r) ==
    /\ req[r].pc = "idle"
    /\ probe.session # NoRow
    /\ req' = [req EXCEPT ![r] = IgThread("disconnect_commit", probe.session, FALSE, NoClient)]
    /\ UNCHANGED <<db, accounts, next_id, now, connected, available, probe>>

\* disconnect_user, lines 125-127: the row read is deleted and the deletion
\* committed; a row that is gone already is not deleted again.
DisconnectCommit(r) ==
    /\ req[r].pc = "disconnect_commit"
    /\ LET deletes == probe.session.row = req[r].session.row
           login == IF deletes THEN probe.session.cred ELSE req[r].session.cred
       IN  /\ probe' = IF deletes THEN [probe EXCEPT !.session = NoRow] ELSE probe
           /\ connected' = IF deletes THEN FALSE ELSE connected
           /\ req' = [req EXCEPT ![r] = IgThread("disconnect_pop", NoRow, FALSE, login)]
    /\ UNCHANGED <<db, accounts, next_id, now, available>>

\* disconnect_user, line 128: the user's cache entry is dropped.
DisconnectPop(r) ==
    /\ req[r].pc = "disconnect_pop"
    /\ probe' = [probe EXCEPT !.cache = NoClient,
                              !.floor = IgMax(@, req[r].client + 1)]
    /\ req' = [req EXCEPT ![r] = IgIdle]
    /\ UNCHANGED <<db, accounts, next_id, now, connected, available>>

InitIg ==
    /\ db = {}
    /\ accounts = AccountRows
    /\ next_id = 1
    /\ now = 0
    /\ connected = FALSE
    /\ available = TRUE
    /\ req = [r \in Requests |-> IgIdle]
    /\ probe = [op |-> "instagram", session |-> NoRow, stored |-> 0, rows |-> 0,
                cache |-> NoClient, floor |-> 0,
                returned |-> [client |-> NoClient, floor |-> 0]]

NextIg ==
    \E r \in Requests :
        \/ IsConnected(r)
        \/ ClientForCacheRead(r)
        \/ ClientForSessionRead(r)
        \/ ClientForValidate(r)
        \/ ClientForCacheWrite(r)
        \/ ConnectRead(r)
        \/ ConnectCommit(r)
        \/ ConnectPop(r)
        \/ DisconnectRead(r)
        \/ DisconnectCommit(r)
        \/ DisconnectPop(r)

SpecIg == InitIg /\ [][NextIg]_vars

\* C29: the client cache agrees with the stored session.  While no
\* connect_user or disconnect_user is between its commit and its end, a
\* cached client exists only if a session is stored; and the client
\* _client_for returns was never built from a session older than the one a
\* completed connect_user stored or as old as the one a completed
\* disconnect_user deleted.
C29_ClientCacheConsistent ==
    /\ (\A r \in Requests : req[r].pc \notin {"connect_pop", "disconnect_pop"})
          => (probe.cache # NoClient => probe.session # NoRow)
    /\ probe.returned.client # NoClient
          => probe.returned.client >= probe.returned.floor

=============================================================================
